---- MODULE Spec2Model ----
(***************************************************************************)
(* A model of the CSV -> QIF conversion core of QuickenClone               *)
(* (src/qif_converter.py): date normalisation (convert_date), record       *)
(* serialisation (to_qif), the append-only writer (QIFWriter) and the      *)
(* per-row tolerant batch loop (csv_to_qif).                               *)
(*                                                                         *)
(* Text is modelled as a sequence of one-character strings, so that        *)
(* parsing and formatting are computed character by character the way      *)
(* strptime / strftime / float / format do.  Free text that the code only  *)
(* copies (an action, a ticker, a memo) is a one-element sequence holding  *)
(* the whole word.  Python's None is the sentinel None below.              *)
(***************************************************************************)
EXTENDS Integers, Sequences, FiniteSets, TLC

(***************************************************************************)
(* Bounds.                                                                 *)
(***************************************************************************)
MaxRows == 2
MaxCalls == 2
MaxTransactions == 2

(***************************************************************************)
(* Characters and decimal numerals.                                        *)
(***************************************************************************)
DigitCh == <<"0", "1", "2", "3", "4", "5", "6", "7", "8", "9">>
Digit == {DigitCh[i] : i \in 1..10}
NonZeroDigit == Digit \ {"0"}
DigitVal(c) == (CHOOSE i \in 1..10 : DigitCh[i] = c) - 1

IsDigits(s) == \A i \in 1..Len(s) : s[i] \in Digit

RECURSIVE IntOf(_)
IntOf(s) == IF s = <<>> THEN 0
            ELSE 10 * IntOf(SubSeq(s, 1, Len(s) - 1)) + DigitVal(s[Len(s)])

RECURSIVE Dec(_)
Dec(n) == IF n < 10 THEN <<DigitCh[n + 1]>>
          ELSE Append(Dec(n \div 10), DigitCh[(n % 10) + 1])

RECURSIVE ZeroPad(_, _)
ZeroPad(s, w) == IF Len(s) >= w THEN s ELSE ZeroPad(<<"0">> \o s, w)

\* Python's None, and str(None) as an f-string renders it.
None == <<"<None>">>
Str(x) == IF x = None THEN <<"None">> ELSE x
\* Python truthiness of an Optional[str]: None and "" are falsy.
Truthy(x) == x # None /\ x # <<>>

(***************************************************************************)
(* datetime.strptime / strftime, for the directives convert_date uses.     *)
(* A directive is a regular expression; the format is matched from the     *)
(* start of the string and must consume all of it.                         *)
(*   %Y  \d\d\d\d                                                          *)
(*   %m  1[0-2]|0[1-9]|[1-9]                                               *)
(*   %d  3[0-1]|[1-2]\d|0[1-9]|[1-9]| [1-9]                                 *)
(***************************************************************************)
MatchY(t) == Len(t) = 4 /\ IsDigits(t)
MatchM(t) == \/ Len(t) = 2 /\ t[1] = "1" /\ t[2] \in {"0", "1", "2"}
             \/ Len(t) = 2 /\ t[1] = "0" /\ t[2] \in NonZeroDigit
             \/ Len(t) = 1 /\ t[1] \in NonZeroDigit
MatchD(t) == \/ Len(t) = 2 /\ t[1] = "3" /\ t[2] \in {"0", "1"}
             \/ Len(t) = 2 /\ t[1] \in {"1", "2"} /\ t[2] \in Digit
             \/ Len(t) = 2 /\ t[1] = "0" /\ t[2] \in NonZeroDigit
             \/ Len(t) = 1 /\ t[1] \in NonZeroDigit
             \/ Len(t) = 2 /\ t[1] = " " /\ t[2] \in NonZeroDigit
MatchDirective(d, t) == CASE d = "Y" -> MatchY(t)
                          [] d = "m" -> MatchM(t)
                          [] d = "d" -> MatchD(t)
\* int() of a matched group (a leading blank of %d is skipped by int()).
GroupVal(t) == IF t # <<>> /\ t[1] = " " THEN IntOf(Tail(t)) ELSE IntOf(t)

IsLeap(y) == (y % 4 = 0 /\ y % 100 # 0) \/ y % 400 = 0
DaysInMonth(y, m) == CASE m \in {1, 3, 5, 7, 8, 10, 12} -> 31
                       [] m \in {4, 6, 9, 11} -> 30
                       [] m = 2 -> IF IsLeap(y) THEN 29 ELSE 28

\* Formats with DD/MM/YYYY tried before MM/DD/YYYY.
Formats_DayFirst == << [sep |-> "-", dirs |-> <<"Y", "m", "d">>],
                       [sep |-> "/", dirs |-> <<"d", "m", "Y">>],
                       [sep |-> "/", dirs |-> <<"m", "d", "Y">>],
                       [sep |-> "/", dirs |-> <<"Y", "m", "d">>],
                       [sep |-> "-", dirs |-> <<"d", "m", "Y">>] >>

\* The five formats of convert_date, in the order the loop tries them.
Formats == << [sep |-> "-", dirs |-> <<"Y", "m", "d">>],
              [sep |-> "/", dirs |-> <<"m", "d", "Y">>],
              [sep |-> "/", dirs |-> <<"d", "m", "Y">>],
              [sep |-> "/", dirs |-> <<"Y", "m", "d">>],
              [sep |-> "-", dirs |-> <<"d", "m", "Y">>] >>

\* The places of the two separators of s when it has the shape
\* g1 sep g2 sep g3  with each group matching its directive.
Cuts(s, fmt) ==
    {p \in (1..Len(s)) \X (1..Len(s)) :
       /\ p[1] < p[2]
       /\ s[p[1]] = fmt.sep /\ s[p[2]] = fmt.sep
       /\ MatchDirective(fmt.dirs[1], SubSeq(s, 1, p[1] - 1))
       /\ MatchDirective(fmt.dirs[2], SubSeq(s, p[1] + 1, p[2] - 1))
       /\ MatchDirective(fmt.dirs[3], SubSeq(s, p[2] + 1, Len(s)))}

\* The three groups of s cut at p.
SplitAt(s, p) == << SubSeq(s, 1, p[1] - 1),
                   SubSeq(s, p[1] + 1, p[2] - 1),
                   SubSeq(s, p[2] + 1, Len(s)) >>

\* The groups the regular expression of fmt finds in s; <<>> when it fails
\* or leaves unconverted data.
GroupsOf(s, cuts) == IF cuts = {} THEN <<>>
                     ELSE SplitAt(s, CHOOSE q \in cuts : TRUE)
Groups(s, fmt) == GroupsOf(s, Cuts(s, fmt))

\* The date of the three values found, or a ValueError (ok = FALSE) when
\* the month does not have the day.
MakeDate(y, m, d) == IF d > DaysInMonth(y, m)
                     THEN [ok |-> FALSE, y |-> 0, m |-> 0, d |-> 0]
                     ELSE [ok |-> TRUE, y |-> y, m |-> m, d |-> d]

\* The value of the group of directive d.
Field(g, fmt, d) == GroupVal(g[CHOOSE i \in 1..3 : fmt.dirs[i] = d])

DateOfGroups(g, fmt) ==
    IF g = <<>> THEN [ok |-> FALSE, y |-> 0, m |-> 0, d |-> 0]
    ELSE MakeDate(Field(g, fmt, "Y"), Field(g, fmt, "m"), Field(g, fmt, "d"))

\* strptime(s, fmt): the parsed date, or a ValueError (ok = FALSE) when the
\* string does not match or names a day the month does not have.
strptime(s, fmt) ==
    IF s = None THEN [ok |-> FALSE, y |-> 0, m |-> 0, d |-> 0]
    ELSE DateOfGroups(Groups(s, fmt), fmt)

\* strftime with the day written before the month.
strftime_DayFirst(dt) == ZeroPad(Dec(dt.d), 2) \o <<"/">> \o ZeroPad(Dec(dt.m), 2)
                            \o <<"/">> \o Dec(dt.y)

\* dt.strftime('%m/%d/%Y')
strftime(dt) == ZeroPad(Dec(dt.m), 2) \o <<"/">> \o ZeroPad(Dec(dt.d), 2)
                   \o <<"/">> \o Dec(dt.y)

\* convert_date: the first format that parses wins; otherwise a ValueError
\* whose message embeds date_str.
RECURSIVE TryFormats(_, _)
TryFormats(date_str, k) ==
    IF k > Len(Formats)
    THEN [ok |-> FALSE, val |-> <<>>, exc |-> "ValueError", arg |-> Str(date_str)]
    ELSE LET dt == strptime(date_str, Formats[k])
         IN IF dt.ok
            THEN [ok |-> TRUE, val |-> strftime(dt), exc |-> "", arg |-> <<>>]
            ELSE TryFormats(date_str, k + 1)

\* convert_date that hands back its argument when no format parses.
convert_date_Lenient(date_str) ==
    IF TryFormats(date_str, 1).ok THEN TryFormats(date_str, 1)
    ELSE [ok |-> TRUE, val |-> Str(date_str), exc |-> "", arg |-> <<>>]

convert_date(date_str) == TryFormats(date_str, 1)

(***************************************************************************)
(* float(text) and fixed-point formatting.  A float is held as an integer  *)
(* number of ten-thousandths (every numeral of the model has at most four  *)
(* fractional digits, and at most two where the field is printed with      *)
(* two), wrapped so that None is a value of the same shape.                *)
(***************************************************************************)
Scale == 10000
NoneF == [isNone |-> TRUE, v |-> 0]
Float(x) == [isNone |-> FALSE, v |-> x]

RECURSIVE Strip(_)
Strip(s) == IF s # <<>> /\ s[1] = " " THEN Strip(Tail(s))
            ELSE IF s # <<>> /\ s[Len(s)] = " " THEN Strip(SubSeq(s, 1, Len(s) - 1))
            ELSE s

\* An unsigned decimal numeral: digits, optionally a point, digits; at least
\* one digit in all.
IsNumeral(s) ==
    /\ s # <<>>
    /\ \A i \in 1..Len(s) : s[i] \in Digit \cup {"."}
    /\ Cardinality({i \in 1..Len(s) : s[i] = "."}) <= 1
    /\ \E i \in 1..Len(s) : s[i] \in Digit

NumeralVal(s) ==
    LET dots == {i \in 1..Len(s) : s[i] = "."}
        dot == IF dots = {} THEN Len(s) + 1 ELSE CHOOSE i \in dots : TRUE
        ip == SubSeq(s, 1, dot - 1)
        fp == SubSeq(s, dot + 1, Len(s))
        fp4 == SubSeq(fp \o <<"0", "0", "0", "0">>, 1, 4)
    IN IntOf(ip) * Scale + IntOf(fp4)

\* float(x): TypeError on None, ValueError on text that is not a number.
float(x) ==
    LET t == Strip(x)
        neg == t # <<>> /\ t[1] = "-"
        body == IF t # <<>> /\ t[1] \in {"-", "+"} THEN Tail(t) ELSE t
    IN IF x = None THEN [exc |-> "TypeError", val |-> NoneF]
       ELSE IF ~IsNumeral(body) THEN [exc |-> "ValueError", val |-> NoneF]
       ELSE [exc |-> "", val |-> Float(IF neg THEN 0 - NumeralVal(body) ELSE NumeralVal(body))]

RECURSIVE Pow10(_)
Pow10(n) == IF n = 0 THEN 1 ELSE 10 * Pow10(n - 1)

\* Formatting that always keeps two places.
FormatFixed_TwoPlaces(x, places) ==
    LET mag == IF x < 0 THEN 0 - x ELSE x
        unit == Scale \div Pow10(2)
        r == (mag + (unit \div 2)) \div unit
    IN (IF x < 0 THEN <<"-">> ELSE <<>>)
         \o Dec(r \div Pow10(2)) \o <<".">>
         \o ZeroPad(Dec(r % Pow10(2)), 2)

\* f"{x:.<places>f}"
FormatFixed(x, places) ==
    LET mag == IF x < 0 THEN 0 - x ELSE x
        unit == Scale \div Pow10(places)
        r == (mag + (unit \div 2)) \div unit
    IN (IF x < 0 THEN <<"-">> ELSE <<>>)
         \o Dec(r \div Pow10(places)) \o <<".">>
         \o ZeroPad(Dec(r % Pow10(places)), places)

(***************************************************************************)
(* QIF text.  A file is a sequence of lines; a line is its leading tag     *)
(* and the text after it.                                                  *)
(***************************************************************************)
Line(tag, text) == [tag |-> tag, text |-> text]
Caret == Line("^", <<>>)

\* QIFType
QIFType == [BANK |-> "!Type:Bank", CASH |-> "!Type:Cash", INVESTMENT |-> "!Type:Invst",
            CREDIT |-> "!Type:CCard", ASSET |-> "!Type:Oth A", LIABILITY |-> "!Type:Oth L"]

\* QIFTransaction.to_qif writing the category before the memo.
QIFTransaction_to_qif_CategoryFirst(t) ==
    <<Line("D", t.date), Line("T", FormatFixed(t.amount.v, 2))>>
      \o (IF Truthy(t.payee) THEN <<Line("P", t.payee)>> ELSE <<>>)
      \o (IF Truthy(t.category) THEN <<Line("L", t.category)>> ELSE <<>>)
      \o (IF Truthy(t.memo) THEN <<Line("M", t.memo)>> ELSE <<>>)
      \o (IF Truthy(t.check_num) THEN <<Line("N", t.check_num)>> ELSE <<>>)
      \o <<Caret>>

\* QIFTransaction.to_qif
QIFTransaction_to_qif(t) ==
    <<Line("D", t.date), Line("T", FormatFixed(t.amount.v, 2))>>
      \o (IF Truthy(t.payee) THEN <<Line("P", t.payee)>> ELSE <<>>)
      \o (IF Truthy(t.memo) THEN <<Line("M", t.memo)>> ELSE <<>>)
      \o (IF Truthy(t.category) THEN <<Line("L", t.category)>> ELSE <<>>)
      \o (IF Truthy(t.check_num) THEN <<Line("N", t.check_num)>> ELSE <<>>)
      \o <<Caret>>

\* QIFInvestmentTransaction.to_qif writing the amount before the commission.
QIFInvestmentTransaction_to_qif_AmountFirst(t) ==
    <<Line("D", t.date), Line("N", Str(t.action))>>
      \o (IF Truthy(t.security) THEN <<Line("Y", t.security)>> ELSE <<>>)
      \o (IF ~t.price.isNone THEN <<Line("I", FormatFixed(t.price.v, 4))>> ELSE <<>>)
      \o (IF ~t.quantity.isNone THEN <<Line("Q", FormatFixed(t.quantity.v, 4))>> ELSE <<>>)
      \o (IF ~t.amount.isNone THEN <<Line("T", FormatFixed(t.amount.v, 2))>> ELSE <<>>)
      \o (IF ~t.commission.isNone /\ t.commission.v # 0
            THEN <<Line("O", FormatFixed(t.commission.v, 2))>> ELSE <<>>)
      \o (IF Truthy(t.account) THEN <<Line("L", <<"[">> \o t.account \o <<"]">>)>> ELSE <<>>)
      \o (IF Truthy(t.memo) THEN <<Line("M", t.memo)>> ELSE <<>>)
      \o <<Caret>>

\* QIFInvestmentTransaction.to_qif
QIFInvestmentTransaction_to_qif(t) ==
    <<Line("D", t.date), Line("N", Str(t.action))>>
      \o (IF Truthy(t.security) THEN <<Line("Y", t.security)>> ELSE <<>>)
      \o (IF ~t.price.isNone THEN <<Line("I", FormatFixed(t.price.v, 4))>> ELSE <<>>)
      \o (IF ~t.quantity.isNone THEN <<Line("Q", FormatFixed(t.quantity.v, 4))>> ELSE <<>>)
      \o (IF ~t.commission.isNone /\ t.commission.v # 0
            THEN <<Line("O", FormatFixed(t.commission.v, 2))>> ELSE <<>>)
      \o (IF ~t.amount.isNone THEN <<Line("T", FormatFixed(t.amount.v, 2))>> ELSE <<>>)
      \o (IF Truthy(t.account) THEN <<Line("L", <<"[">> \o t.account \o <<"]">>)>> ELSE <<>>)
      \o (IF Truthy(t.memo) THEN <<Line("M", t.memo)>> ELSE <<>>)
      \o <<Caret>>

to_qif(t) == IF t.kind = "investment" THEN QIFInvestmentTransaction_to_qif(t)
             ELSE QIFTransaction_to_qif(t)

\* write_header opening the file with mode 'w'.
write_header_Truncate(content, qif_type) == <<Line(qif_type, <<>>)>>
\* write_transaction putting the record in front of what the file holds.
write_transaction_Prepend(content, transaction) == to_qif(transaction) \o content

\* write_transaction opening the file with mode 'w'.
write_transaction_Overwrite(content, transaction) == to_qif(transaction)

\* QIFWriter: both methods open the file in append mode, write, and close.
write_header(content, qif_type) == Append(content, Line(qif_type, <<>>))
write_transaction(content, transaction) == content \o to_qif(transaction)

(***************************************************************************)
(* The source CSV as csv.DictReader presents it: every row is a dict over  *)
(* the header's columns; a row shorter than the header has None in the     *)
(* columns it lacks.                                                       *)
(***************************************************************************)
Columns == <<"Transaction Type", "Trade Date", "Symbol", "Price", "Quantity",
             "Commission", "Amount", "Notes", "Account">>
ColumnSet == {Columns[i] : i \in 1..Len(Columns)}
DictRow(cells) ==
    [c \in ColumnSet |->
        LET i == CHOOSE j \in 1..Len(Columns) : Columns[j] = c
        IN IF i <= Len(cells) THEN cells[i] ELSE None]

\* Cell texts.
Txt_ISO == <<"2", "0", "2", "4", "-", "0", "1", "-", "1", "5">>
Txt_DMY == <<"1", "6", "/", "0", "1", "/", "2", "0", "2", "4">>
Txt_Price == <<"1", "8", "5", ".", "9", "2">>
Txt_Qty == <<"1", "0">>
Txt_Comm == <<"4", ".", "9", "5">>
Txt_Amt == <<"1", "8", "5", "9", ".", "2", "0">>
Txt_Zero == <<"0">>
Txt_Blank == <<" ", " ">>
Txt_Abc == <<"a", "b", "c">>
Txt_Invalid == <<"i", "n", "v", "a", "l", "i", "d">>

GoodCells == << <<"Buy">>, Txt_ISO, <<"AAPL">>, Txt_Price, Txt_Qty, Txt_Comm, Txt_Amt,
                <<"Initial position">>, <<"Cash">> >>
With(cells, i, v) == [cells EXCEPT ![i] = v]

\* The rows a source file is made of: well-formed rows, rows with one
\* faulty or empty cell, and rows shorter than the header.
RowChoices ==
    { DictRow(GoodCells),
      DictRow(With(With(With(GoodCells, 1, <<"Sell">>), 2, Txt_DMY), 3, <<"MSFT">>)),
      DictRow(With(GoodCells, 2, Txt_Invalid)),
      DictRow(With(GoodCells, 4, Txt_Abc)),
      DictRow(With(With(With(With(With(GoodCells, 1, <<"Div">>),
                                  4, <<>>), 5, <<>>), 6, <<>>), 7, <<>>)),
      DictRow(With(GoodCells, 4, Txt_Blank)),
      DictRow(With(GoodCells, 5, Txt_Blank)),
      DictRow(With(GoodCells, 6, Txt_Blank)),
      DictRow(With(GoodCells, 7, Txt_Blank)),
      DictRow(With(GoodCells, 6, Txt_Zero)),
      DictRow(With(GoodCells, 6, <<>>)),
      DictRow(With(GoodCells, 1, <<>>)),
      DictRow(With(GoodCells, 1, <<"Frobnicate">>)),
      DictRow(SubSeq(GoodCells, 1, 3)),
      DictRow(SubSeq(GoodCells, 1, 1)) }

CsvFiles == UNION {[1..n -> RowChoices] : n \in 0..MaxRows}

(***************************************************************************)
(* The arguments of a call: transaction_type and mapping.                  *)
(***************************************************************************)
InvestmentMapping ==
    [date |-> "Trade Date", action |-> "Transaction Type", security |-> "Symbol",
     price |-> "Price", quantity |-> "Quantity", commission |-> "Commission",
     memo |-> "Notes"]
CashMapping ==
    [date |-> "Trade Date", amount |-> "Amount", payee |-> "Symbol", memo |-> "Notes"]
Without(m, k) == [x \in DOMAIN m \ {k} |-> m[x]]
WithKey(m, k, col) == [x \in DOMAIN m \cup {k} |-> IF x = k THEN col ELSE m[x]]

ArgChoices ==
    << [type |-> "investment", mapping |-> InvestmentMapping],
       [type |-> "investment", mapping |-> WithKey(InvestmentMapping, "amount", "Amount")],
       [type |-> "investment", mapping |-> Without(InvestmentMapping, "price")],
       [type |-> "investment", mapping |-> Without(InvestmentMapping, "quantity")],
       [type |-> "investment", mapping |-> Without(InvestmentMapping, "commission")],
       [type |-> "investment", mapping |-> Without(InvestmentMapping, "memo")],
       [type |-> "investment", mapping |-> WithKey(InvestmentMapping, "date", "Nonexistent")],
       [type |-> "investment", mapping |-> Without(InvestmentMapping, "security")],
       [type |-> "investment", mapping |-> Without(InvestmentMapping, "action")],
       [type |-> "investment", mapping |-> Without(InvestmentMapping, "date")],
       [type |-> "cash", mapping |-> CashMapping],
       [type |-> "cash", mapping |-> WithKey(CashMapping, "payee", "Nonexistent")],
       [type |-> "cash", mapping |-> Without(CashMapping, "amount")],
       [type |-> "cash", mapping |-> Without(CashMapping, "date")],
       [type |-> "investment", mapping |-> WithKey(InvestmentMapping, "account", "Account")] >>

\* What the destination may hold before the first call.
PriorLine == Line("!Account", <<>>)
PriorContents == {<<>>, <<PriorLine>>}

(***************************************************************************)
(* csv_to_qif, one row: building the record.  Each sub-expression either   *)
(* yields a value or raises; the first one to raise, in evaluation order,  *)
(* decides the outcome.                                                    *)
(***************************************************************************)
Ok(v) == [exc |-> "", val |-> v]
Raise(e) == [exc |-> e, val |-> <<>>]
RaiseF(e) == [exc |-> e, val |-> NoneF]

\* row.get(col) and row[col]
Get(row, col) == IF col \in DOMAIN row THEN row[col] ELSE None
Item(row, col) == IF col \in DOMAIN row THEN Ok(row[col]) ELSE Raise("KeyError")

\* float(row[mapping[k]]) if row.get(mapping[k]) else None
UnguardedFloat(row, mapping, k) ==
    IF k \notin DOMAIN mapping THEN RaiseF("KeyError")
    ELSE IF Truthy(Get(row, mapping[k])) THEN float(row[mapping[k]])
    ELSE [exc |-> "", val |-> NoneF]

\* The optional float without the test of row.get(mapping[k]).
GuardedFloat_NoGuard(row, mapping, k) ==
    IF k \in DOMAIN mapping THEN float(Get(row, mapping[k]))
    ELSE [exc |-> "", val |-> NoneF]

\* float(row[mapping[k]]) if k in mapping and row.get(mapping[k]) else None
GuardedFloat(row, mapping, k) ==
    IF k \in DOMAIN mapping /\ Truthy(Get(row, mapping[k])) THEN float(row[mapping[k]])
    ELSE [exc |-> "", val |-> NoneF]

\* row[mapping[k]] if k in mapping else None
OptionalItem(row, mapping, k) ==
    IF k \in DOMAIN mapping THEN Item(row, mapping[k]) ELSE Ok(None)

\* convert_date(row[mapping['date']])
DateItem(row, mapping) ==
    LET it == Item(row, mapping["date"])
    IN IF it.exc # "" THEN it
       ELSE LET cd == convert_date(it.val)
            IN IF cd.ok THEN Ok(cd.val) ELSE Raise(cd.exc)

\* The first exception raised by a sequence of evaluations, "" if none.
RECURSIVE FirstExc(_)
FirstExc(rs) == IF rs = <<>> THEN ""
                ELSE IF Head(rs).exc # "" THEN Head(rs).exc
                ELSE FirstExc(Tail(rs))

NoTransaction == [kind |-> "none"]

BuildInvestment(row, mapping) ==
    LET price == UnguardedFloat(row, mapping, "price")
        quantity == UnguardedFloat(row, mapping, "quantity")
        commission == GuardedFloat(row, mapping, "commission")
        amount == GuardedFloat(row, mapping, "amount")
        date == DateItem(row, mapping)
        action == Item(row, mapping["action"])
        security == Item(row, mapping["security"])
        memo == OptionalItem(row, mapping, "memo")
        e == FirstExc(<<price, quantity, commission, amount, date, action, security, memo>>)
    IN IF e # "" THEN [exc |-> e, txn |-> NoTransaction]
       ELSE [exc |-> "",
             txn |-> [kind |-> "investment", date |-> date.val, action |-> action.val,
                      security |-> security.val, price |-> price.val,
                      quantity |-> quantity.val, commission |-> commission.val,
                      memo |-> memo.val, amount |-> amount.val, account |-> None]]

BuildCash(row, mapping) ==
    LET date == DateItem(row, mapping)
        amountItem == Item(row, mapping["amount"])
        amount == IF amountItem.exc # "" THEN RaiseF(amountItem.exc)
                  ELSE float(amountItem.val)
        payee == OptionalItem(row, mapping, "payee")
        memo == OptionalItem(row, mapping, "memo")
        category == OptionalItem(row, mapping, "category")
        check_num == OptionalItem(row, mapping, "check_num")
        e == FirstExc(<<date, amount, payee, memo, category, check_num>>)
    IN IF e # "" THEN [exc |-> e, txn |-> NoTransaction]
       ELSE [exc |-> "",
             txn |-> [kind |-> "cash", date |-> date.val, amount |-> amount.val,
                      payee |-> payee.val, memo |-> memo.val,
                      category |-> category.val, check_num |-> check_num.val]]

\* InvestmentAction
InvestmentAction ==
    {"Buy", "Sell", "BuyX", "SellX", "Div", "IntInc", "ReinvDiv", "ShrsIn", "ShrsOut",
     "StkSplit", "CGLong", "CGShort", "MargInt", "MiscInc", "MiscExp"}

\* A converter that skips an investment row whose action is not one of the
\* InvestmentAction codes.
BuildTransaction_KnownActionsOnly(transaction_type, row, mapping) ==
    IF transaction_type # "investment" THEN BuildCash(row, mapping)
    ELSE IF \E a \in InvestmentAction : Get(row, mapping["action"]) = <<a>>
    THEN BuildInvestment(row, mapping)
    ELSE [exc |-> "ValueError", txn |-> NoTransaction]

BuildTransaction(transaction_type, row, mapping) ==
    IF transaction_type = "investment" THEN BuildInvestment(row, mapping)
    ELSE BuildCash(row, mapping)

\* required_fields without 'security' for an investment conversion.
RequiredFields_NoSecurity(transaction_type) ==
    IF transaction_type = "investment" THEN {"date", "action"}
    ELSE {"date", "amount"}

\* required_fields / missing_fields
RequiredFields(transaction_type) ==
    IF transaction_type = "investment" THEN {"date", "action", "security"}
    ELSE {"date", "amount"}
MissingFields(transaction_type, mapping) ==
    RequiredFields(transaction_type) \ DOMAIN mapping

\* qif_type that is BANK whatever the transaction type.
HeaderFor_AlwaysBank(transaction_type) == QIFType.BANK

HeaderFor(transaction_type) ==
    IF transaction_type = "investment" THEN QIFType.INVESTMENT ELSE QIFType.BANK

(***************************************************************************)
(* State.                                                                  *)
(***************************************************************************)
VARIABLES
    csv_exists,        \* whether csv_file can be opened
    csv,               \* the data rows of csv_file
    transaction_type,  \* argument of csv_to_qif
    mapping,           \* argument of csv_to_qif
    qif,               \* the lines of qif_file
    pc,                \* where the call stands
    cursor,            \* rows the reader has handed out in this call
    calls,             \* calls started so far
    raised,            \* the exception that left the call, "" if none
    stdout,            \* what the call printed: one entry per diagnostic
    qif_at_call,       \* qif when the current call started
    written,           \* per row handed out in this call: did it give a record
    date_str,          \* argument of a direct convert_date call
    date_res,          \* its outcome
    rec,               \* a transaction object handed to to_qif directly
    rec_lines,         \* the lines to_qif returned for it
    cli_args,          \* qif_cli.main: args.type and the parsed --mapping
    header,            \* the cells of the first line of csv_file
    cli_pc,            \* where main stands
    transactions,      \* QIFConverterGUI.transactions
    transaction_list,  \* the items of QIFConverterGUI.transaction_list
    gui_call,          \* the last GUI event handled, with what it was given
    gui_ret,           \* what it returned
    transactions_pre,  \* transactions when it was called
    current_row,       \* transaction_list.currentRow(): -1 when no row is selected
    dest_open,         \* handles open on qif_file
    out_file           \* the file export_qif writes

vars == <<csv_exists, csv, transaction_type, mapping, qif, pc, cursor, calls, raised,
          stdout, qif_at_call, written, date_str, date_res, rec, rec_lines,
          cli_args,
          header, cli_pc, transactions, transaction_list, gui_call, gui_ret,
          transactions_pre, current_row, dest_open, out_file>>

convVars == <<csv_exists, csv, transaction_type, mapping, qif, pc, cursor, calls, raised,
              stdout, qif_at_call, written>>
dateVars == <<date_str, date_res>>
recVars == <<rec, rec_lines>>
cliVars == <<cli_args, header, cli_pc>>
guiVars == <<transactions, transaction_list, gui_call, gui_ret, transactions_pre,
            current_row>>
handleVars == <<dest_open>>
fileVars == <<out_file>>

Pending == [ok |-> FALSE, val |-> <<>>, exc |-> "pending", arg |-> <<>>]

\* The parts of the state a specification does not exercise stand still at
\* these values.
DateIdle == date_str = <<>> /\ date_res = Pending
RecIdle == rec = NoTransaction /\ rec_lines = <<>>
CliIdle ==
    /\ cli_args = [type |-> "none", user |-> <<>>]
    /\ header = [i \in 1..Len(Columns) |-> <<Columns[i]>>]
    /\ cli_pc = "none"
GuiIdle ==
    /\ transactions = <<>>
    /\ transaction_list = <<>>
    /\ gui_call = [op |-> "none"]
    /\ gui_ret = "none"
    /\ transactions_pre = <<>>
    /\ current_row = 0 - 1
HandleIdle == dest_open = 0
\* No file of the name export_qif is given.
NoFile == [exists |-> FALSE, lines |-> <<>>]
FileIdle == out_file = NoFile
ConvIdle ==
    /\ csv_exists = TRUE /\ csv = <<>>
    /\ transaction_type = ArgChoices[1].type
    /\ mapping = ArgChoices[1].mapping
    /\ qif = <<>>
    /\ pc = "idle"
    /\ cursor = 0
    /\ calls = 0
    /\ raised = ""
    /\ stdout = <<>>
    /\ qif_at_call = <<>>
    /\ written = <<>>

Init ==
    /\ \/ csv_exists = TRUE /\ csv \in CsvFiles
       \/ csv_exists = FALSE /\ csv = <<>>
    /\ \E i \in 1..Len(ArgChoices) :
          /\ transaction_type = ArgChoices[i].type
          /\ mapping = ArgChoices[i].mapping
    /\ qif \in PriorContents
    /\ pc = "idle"
    /\ cursor = 0
    /\ calls = 0
    /\ raised = ""
    /\ stdout = <<>>
    /\ qif_at_call = qif
    /\ written = <<>>
    /\ DateIdle /\ RecIdle /\ CliIdle /\ GuiIdle /\ HandleIdle /\ FileIdle

(***************************************************************************)
(* csv_to_qif, step by step.                                               *)
(***************************************************************************)
\* Entry and validation of the mapping (lines 128-138).
Validate ==
    /\ pc \in {"idle", "returned", "raised"}
    /\ \/ cli_pc = "none" /\ calls < MaxCalls    \* a caller that may call again
       \/ cli_pc = "calling" /\ calls = 0         \* main calls once
    /\ calls' = calls + 1
    /\ cursor' = 0
    /\ stdout' = <<>>
    /\ written' = <<>>
    /\ qif_at_call' = qif
    /\ IF MissingFields(transaction_type, mapping) # {}
       THEN pc' = "raised" /\ raised' = "KeyError"
       ELSE pc' = "validated" /\ raised' = ""
    /\ UNCHANGED <<csv_exists, csv, transaction_type, mapping, qif, dateVars, recVars, cliVars,
                   guiVars, handleVars, fileVars>>

\* writer.write_header(qif_type) (lines 141-142).
WriteHeader ==
    /\ pc = "validated"
    /\ qif' = write_header(qif, HeaderFor(transaction_type))
    /\ pc' = "header_written"
    /\ UNCHANGED <<csv_exists, csv, transaction_type, mapping, cursor, calls, raised,
                   stdout, qif_at_call, written, dateVars, recVars, cliVars,
                   guiVars, handleVars, fileVars>>

\* open(csv_file, 'r') and csv.DictReader (lines 144-145).
OpenCsv ==
    /\ pc = "header_written"
    /\ IF csv_exists
       THEN pc' = "loop" /\ raised' = raised
       ELSE pc' = "raised" /\ raised' = "FileNotFoundError"
    /\ UNCHANGED <<csv_exists, csv, transaction_type, mapping, qif, cursor, calls,
                   stdout, qif_at_call, written, dateVars, recVars, cliVars,
                   guiVars, handleVars, fileVars>>

\* The loop without the two print calls of the handler.
ProcessRow_Silent ==
    /\ pc = "loop"
    /\ cursor < Len(csv)
    /\ LET row == csv[cursor + 1]
           b == BuildTransaction(transaction_type, row, mapping)
       IN /\ cursor' = cursor + 1
          /\ IF b.exc = ""
             THEN /\ qif' = write_transaction(qif, b.txn)
                  /\ written' = Append(written, TRUE)
                  /\ UNCHANGED <<stdout, pc, raised>>
             ELSE IF b.exc \in {"ValueError", "KeyError"}
             THEN /\ written' = Append(written, FALSE)
                  /\ UNCHANGED <<qif, pc, raised, stdout>>
             ELSE /\ pc' = "raised"
                  /\ raised' = b.exc
                  /\ written' = Append(written, FALSE)
                  /\ UNCHANGED <<qif, stdout>>
    /\ UNCHANGED <<csv_exists, csv, transaction_type, mapping, calls, qif_at_call,
                   dateVars, recVars, cliVars,
                   guiVars, handleVars, fileVars>>

\* One iteration of the loop (lines 146-178).
ProcessRow ==
    /\ pc = "loop"
    /\ cursor < Len(csv)
    /\ LET row == csv[cursor + 1]
           b == BuildTransaction(transaction_type, row, mapping)
       IN /\ cursor' = cursor + 1
          /\ IF b.exc = ""
             THEN /\ qif' = write_transaction(qif, b.txn)
                  /\ written' = Append(written, TRUE)
                  /\ UNCHANGED <<stdout, pc, raised>>
             ELSE IF b.exc \in {"ValueError", "KeyError"}
             THEN /\ stdout' = Append(stdout, [row |-> row, exc |-> b.exc])
                  /\ written' = Append(written, FALSE)
                  /\ UNCHANGED <<qif, pc, raised>>
             ELSE /\ pc' = "raised"
                  /\ raised' = b.exc
                  /\ written' = Append(written, FALSE)
                  /\ UNCHANGED <<qif, stdout>>
    /\ UNCHANGED <<csv_exists, csv, transaction_type, mapping, calls, qif_at_call,
                   dateVars, recVars, cliVars,
                   guiVars, handleVars, fileVars>>

\* The reader is exhausted: the with block closes and the function returns.
Return ==
    /\ pc = "loop"
    /\ cursor = Len(csv)
    /\ pc' = "returned"
    /\ UNCHANGED <<csv_exists, csv, transaction_type, mapping, qif, cursor, calls, raised,
                   stdout, qif_at_call, written, dateVars, recVars, cliVars,
                   guiVars, handleVars, fileVars>>

Next == Validate \/ WriteHeader \/ OpenCsv \/ ProcessRow \/ Return

Spec == Init /\ [][Next]_vars

\* The whole loop of lines 146-178 over the rows of a file: what the
\* destination holds when the call returns or raises.
RECURSIVE ConvertRows(_, _, _, _)
ConvertRows(rows, type, m, content) ==
    IF rows = <<>> THEN content
    ELSE IF BuildTransaction(type, Head(rows), m).exc = ""
    THEN ConvertRows(Tail(rows), type, m,
                     write_transaction(content, BuildTransaction(type, Head(rows), m).txn))
    ELSE IF BuildTransaction(type, Head(rows), m).exc \in {"ValueError", "KeyError"}
    THEN ConvertRows(Tail(rows), type, m, content)
    ELSE content

\* csv_to_qif on a file that exists, with a mapping that has its fields.
csv_to_qif(rows, type, m, content) ==
    ConvertRows(rows, type, m, write_header(content, HeaderFor(type)))

(***************************************************************************)
(* csv_to_qif with the writer's methods taken step by step: each is        *)
(*     with open(self.output_file, 'a') as f: f.write(...)                 *)
(* that is open, write, close, the close also when the write raised.       *)
(* Whether open and write succeed is the environment's choice.             *)
(***************************************************************************)
\* open(self.output_file, 'a') in write_header or write_transaction.
OpenDest ==
    /\ pc \in {"validated", "row_built"}
    /\ \E fails \in BOOLEAN :
          IF fails
          THEN /\ pc' = "raised"
               /\ raised' = "OSError"
               /\ IF pc = "row_built"
                  THEN cursor' = cursor + 1 /\ written' = Append(written, FALSE)
                  ELSE UNCHANGED <<cursor, written>>
               /\ UNCHANGED dest_open
          ELSE /\ pc' = (IF pc = "validated" THEN "header_open" ELSE "txn_open")
               /\ dest_open' = dest_open + 1
               /\ UNCHANGED <<raised, cursor, written>>
    /\ UNCHANGED <<csv_exists, csv, transaction_type, mapping, qif, calls,
                   stdout, qif_at_call, dateVars, recVars, cliVars, guiVars, fileVars>>

\* f.write(...): the text is appended, or the write raises OSError.
WriteDest ==
    /\ pc \in {"header_open", "txn_open"}
    /\ \E fails \in BOOLEAN :
          IF fails
          THEN /\ pc' = (IF pc = "header_open" THEN "header_failed" ELSE "txn_failed")
               /\ raised' = "OSError"
               /\ UNCHANGED qif
          ELSE /\ pc' = (IF pc = "header_open" THEN "header_put" ELSE "txn_put")
               /\ qif' = IF pc = "header_open"
                         THEN write_header(qif, HeaderFor(transaction_type))
                         ELSE write_transaction(qif,
                                BuildTransaction(transaction_type, csv[cursor + 1],
                                                 mapping).txn)
               /\ UNCHANGED raised
    /\ UNCHANGED <<csv_exists, csv, transaction_type, mapping, cursor, calls, stdout,
                   qif_at_call, written, dateVars, recVars, cliVars, guiVars, handleVars, fileVars>>

\* A with block whose exit leaves the handle open.
CloseDest_Leak ==
    /\ pc \in {"header_put", "header_failed", "txn_put", "txn_failed"}
    /\ pc' = CASE pc = "header_put" -> "header_written"
                [] pc = "txn_put" -> "loop"
                [] OTHER -> "raised"
    /\ IF pc \in {"txn_put", "txn_failed"}
       THEN cursor' = cursor + 1 /\ written' = Append(written, pc = "txn_put")
       ELSE UNCHANGED <<cursor, written>>
    /\ UNCHANGED <<csv_exists, csv, transaction_type, mapping, qif, calls, raised, stdout,
                   qif_at_call, dateVars, recVars, cliVars, guiVars, handleVars, fileVars>>

\* The end of the with block: the handle is closed, and the method returns
\* or the exception of the write goes on (nothing in csv_to_qif catches it).
CloseDest ==
    /\ pc \in {"header_put", "header_failed", "txn_put", "txn_failed"}
    /\ dest_open' = dest_open - 1
    /\ pc' = CASE pc = "header_put" -> "header_written"
                [] pc = "txn_put" -> "loop"
                [] OTHER -> "raised"
    /\ IF pc \in {"txn_put", "txn_failed"}
       THEN cursor' = cursor + 1 /\ written' = Append(written, pc = "txn_put")
       ELSE UNCHANGED <<cursor, written>>
    /\ UNCHANGED <<csv_exists, csv, transaction_type, mapping, qif, calls, raised, stdout,
                   qif_at_call, dateVars, recVars, cliVars, guiVars, fileVars>>

\* The loop body up to the call of write_transaction (lines 146-173), and
\* the handler (lines 175-178).
TakeRow ==
    /\ pc = "loop"
    /\ cursor < Len(csv)
    /\ LET row == csv[cursor + 1]
           b == BuildTransaction(transaction_type, row, mapping)
       IN IF b.exc = ""
          THEN /\ pc' = "row_built"
               /\ UNCHANGED <<cursor, written, stdout, raised>>
          ELSE IF b.exc \in {"ValueError", "KeyError"}
          THEN /\ cursor' = cursor + 1
               /\ stdout' = Append(stdout, [row |-> row, exc |-> b.exc])
               /\ written' = Append(written, FALSE)
               /\ UNCHANGED <<pc, raised>>
          ELSE /\ cursor' = cursor + 1
               /\ pc' = "raised"
               /\ raised' = b.exc
               /\ written' = Append(written, FALSE)
               /\ UNCHANGED stdout
    /\ UNCHANGED <<csv_exists, csv, transaction_type, mapping, qif, calls, qif_at_call,
                   dateVars, recVars, cliVars, guiVars, handleVars, fileVars>>

NextHandle == Validate \/ OpenDest \/ WriteDest \/ CloseDest \/ OpenCsv \/ TakeRow
                \/ Return

SpecHandle == Init /\ [][NextHandle]_vars

(***************************************************************************)
(* convert_date on its own: a specification that draws the argument from   *)
(* a bounded set of strings and applies the function once.                 *)
(***************************************************************************)
\* Numbers written into date strings: months, days and values that are
\* neither; and the years.
SmallVals == {0, 1, 2, 12, 13, 29, 30, 31, 32}
Years == {2023, 2024}
\* A number as two digits, and (below ten) as a single digit.
SmallTokens == {ZeroPad(Dec(n), 2) : n \in SmallVals}
                 \cup {Dec(n) : n \in {v \in SmallVals : v < 10}}
YearTokens == {Dec(y) : y \in Years}
DateTokens == SmallTokens \cup YearTokens \cup {<<" ", "1">>, <<"a", "b">>}
Separators == {"-", "/"}

DateInputs ==
    {t1 \o <<s1>> \o t2 \o <<s2>> \o t3 :
        t1 \in DateTokens, s1 \in Separators, t2 \in DateTokens,
        s2 \in Separators, t3 \in DateTokens}
      \cup {Txt_Invalid, <<>>, None, Txt_ISO \o <<" ">>, Txt_ISO \o <<"5">>}

InitDate ==
    /\ ConvIdle /\ RecIdle /\ CliIdle /\ GuiIdle /\ HandleIdle /\ FileIdle
    /\ date_str \in DateInputs
    /\ date_res = Pending

ConvertDate ==
    /\ date_res = Pending
    /\ date_res' = convert_date(date_str)
    /\ UNCHANGED <<convVars, date_str, recVars, cliVars, guiVars, handleVars, fileVars>>

NextDate == ConvertDate

SpecDate == InitDate /\ [][NextDate]_vars

(***************************************************************************)
(* to_qif on its own: a specification that draws a transaction object of   *)
(* either class from bounded sets of attribute values and serialises it.   *)
(***************************************************************************)
Txt_MDY == <<"0", "1", "/", "1", "5", "/", "2", "0", "2", "4">>
\* Optional[str] attributes: None, the empty string, a word.
OptText(word) == {None, <<>>, <<word>>}
\* Optional[float] attributes: None, zero, a positive and a negative value.
OptFloat(x) == {NoneF, Float(0), Float(x), Float(0 - x)}

InvestmentRecords ==
    [kind : {"investment"}, date : {Txt_MDY}, action : {<<"Buy">>},
     security : OptText("AAPL"), price : {NoneF, Float(0), Float(1859200)},
     quantity : {NoneF, Float(100000), Float(0 - 100000)},
     commission : {NoneF, Float(0), Float(49500)}, memo : OptText("Initial position"),
     amount : {NoneF, Float(0), Float(0 - 18592000)}, account : OptText("Cash")]

BankRecords ==
    [kind : {"cash"}, date : {Txt_MDY}, amount : OptFloat(12345600) \ {NoneF},
     payee : OptText("Test Payee"), memo : OptText("Test memo"),
     category : OptText("Expenses:Test"), check_num : OptText("1001")]

InitRecord ==
    /\ ConvIdle /\ DateIdle /\ CliIdle /\ GuiIdle /\ HandleIdle /\ FileIdle
    /\ rec \in InvestmentRecords \cup BankRecords
    /\ rec_lines = <<>>

\* transaction.to_qif()
ToQif ==
    /\ rec # NoTransaction
    /\ rec_lines = <<>>
    /\ rec_lines' = to_qif(rec)
    /\ UNCHANGED <<convVars, dateVars, rec, cliVars, guiVars, handleVars, fileVars>>

NextRecord == ToQif

SpecRecord == InitRecord /\ [][NextRecord]_vars

(***************************************************************************)
(* qif_cli.main.  The first line of csv_file is a sequence of cells; a     *)
(* cell is a sequence of blanks and words, so that strip() is computed.    *)
(***************************************************************************)
RECURSIVE Join(_)
Join(cell) == IF cell = <<>> THEN "" ELSE Head(cell) \o Join(Tail(cell))

RECURSIVE LStrip(_)
LStrip(s) == IF s # <<>> /\ s[1] = " " THEN LStrip(Tail(s)) ELSE s
RECURSIVE RStrip(_)
RStrip(s) == IF s # <<>> /\ s[Len(s)] = " " THEN RStrip(SubSeq(s, 1, Len(s) - 1)) ELSE s

\* csv.DictReader(f).fieldnames: the cells as they stand.
FieldNames(h) == {Join(h[i]) : i \in 1..Len(h)}
\* f.readline().strip().split(','): the blanks at the two ends of the line
\* are gone, those around an inner comma stay.
StripSplit(h) ==
    LET l == [h EXCEPT ![1] = LStrip(@)]
        r == [l EXCEPT ![Len(l)] = RStrip(@)]
    IN [i \in 1..Len(r) |-> Join(r[i])]
InHeader(field, names) == \E i \in 1..Len(names) : names[i] = field

\* The row csv.DictReader makes of cells under the header h.
HeaderRow(h, cells) ==
    [c \in FieldNames(h) |->
        LET i == CHOOSE j \in 1..Len(h) : Join(h[j]) = c
        IN IF i <= Len(cells) THEN cells[i] ELSE None]

H_Full == [i \in 1..Len(Columns) |-> <<Columns[i]>>]
HeaderChoices ==
    { H_Full,
      [H_Full EXCEPT ![1] = <<" ">> \o @],
      [H_Full EXCEPT ![Len(H_Full)] = @ \o <<" ">>],
      [H_Full EXCEPT ![4] = <<" ">> \o @],
      [H_Full EXCEPT ![4] = <<"Cost">>],
      << <<"invalid">>, <<"csv">> >>,
      << <<>> >> }

\* The default mappings of main.
DefaultMapping(type) ==
    IF type = "investment"
    THEN [date |-> "Trade Date", action |-> "Transaction Type", security |-> "Symbol",
          price |-> "Price", quantity |-> "Quantity", commission |-> "Commission",
          memo |-> "Notes"]
    ELSE [date |-> "Date", amount |-> "Amount", payee |-> "Description",
          category |-> "Category", memo |-> "Notes", check_num |-> "Check Number"]
\* mapping.update(custom_mapping)
Update(m, custom) ==
    [k \in DOMAIN m \cup DOMAIN custom |-> IF k \in DOMAIN custom THEN custom[k] ELSE m[k]]
EffectiveMapping(args) == Update(DefaultMapping(args.type), args.user)

\* --mapping: not given, or one of these.
UserMappings ==
    { <<>>,
      [price |-> "Cost"],
      [date |-> "Nonexistent"],
      [account |-> "Account"],
      [date |-> "Trade Date", payee |-> "Symbol", category |-> "Notes",
       check_num |-> "Symbol"] }
CliArgs == [type : {"investment", "cash"}, user : UserMappings]

\* The data of the file: none, one full row, one row of three cells.
CliFiles(h) ==
    IF Len(h) < 3 THEN {<<>>, <<HeaderRow(h, SubSeq(GoodCells, 1, Len(h)))>>}
    ELSE {<<>>, <<HeaderRow(h, GoodCells)>>, <<HeaderRow(h, SubSeq(GoodCells, 1, 3))>>}

InitCli ==
    /\ DateIdle /\ RecIdle /\ GuiIdle /\ HandleIdle /\ FileIdle
    /\ cli_args \in CliArgs
    /\ header \in HeaderChoices
    /\ \/ csv_exists = TRUE /\ csv \in CliFiles(header)
       \/ csv_exists = FALSE /\ csv = <<>>
    /\ cli_pc = "start"
    /\ transaction_type = cli_args.type
    /\ mapping = DefaultMapping(cli_args.type)
    /\ qif \in PriorContents
    /\ pc = "idle"
    /\ cursor = 0
    /\ calls = 0
    /\ raised = ""
    /\ stdout = <<>>
    /\ qif_at_call = qif
    /\ written = <<>>

\* main up to the call of csv_to_qif (lines 22-68): the effective mapping,
\* then the first line of the file against the columns the mapping names.
CliMain ==
    /\ cli_pc = "start"
    /\ LET m == EffectiveMapping(cli_args)
           names == StripSplit(header)
       IN IF ~csv_exists
          THEN cli_pc' = "exit1" /\ UNCHANGED mapping
          ELSE IF ~\A k \in DOMAIN m : InHeader(m[k], names)
          THEN cli_pc' = "exit1" /\ UNCHANGED mapping
          ELSE cli_pc' = "calling" /\ mapping' = m
    /\ UNCHANGED <<csv_exists, csv, transaction_type, qif, pc, cursor, calls, raised,
                   stdout, qif_at_call, written, dateVars, recVars, cli_args, header,
                   guiVars, handleVars, fileVars>>

\* After csv_to_qif (lines 69-72): success, or the exception caught.
CliFinish ==
    /\ cli_pc = "calling"
    /\ calls = 1
    /\ pc \in {"returned", "raised"}
    /\ cli_pc' = IF pc = "returned" THEN "exit0" ELSE "exit1"
    /\ UNCHANGED <<convVars, dateVars, recVars, cli_args, header, guiVars, handleVars, fileVars>>

NextCli == CliMain \/ Validate \/ WriteHeader \/ OpenCsv \/ ProcessRow \/ Return
             \/ CliFinish

SpecCli == InitCli /\ [][NextCli]_vars

(***************************************************************************)
(* qif_gui: TransactionDialog and the handlers of QIFConverterGUI.  A      *)
(* transaction is a dict: a function from the keys it has to their values. *)
(* What the user does with a dialog is the environment's choice: the       *)
(* dialog is accepted with some texts in its widgets, cancelled, or an     *)
(* exception leaves its construction or exec().                            *)
(***************************************************************************)
RequiredKeys == {"date", "action", "security"}
NumericFields == {"price", "quantity", "commission", "amount"}
TextFields == {"account", "memo"}

\* get_data without the check of the required fields.
get_data_Unchecked(form) ==
    LET there(f) == IF f \in NumericFields
                    THEN Strip(form[f]) # <<>> /\ float(Strip(form[f])).exc = ""
                    ELSE Strip(form[f]) # <<>>
        keys == RequiredKeys \cup {f \in NumericFields \cup TextFields : there(f)}
    IN [k \in keys |->
          IF k = "action" THEN form[k]
          ELSE IF k \in NumericFields THEN float(Strip(form[k])).val
          ELSE Strip(form[k])]

\* TransactionDialog.get_data: None when a required field is empty.
get_data(form) ==
    LET there(f) == IF f \in NumericFields
                    THEN Strip(form[f]) # <<>> /\ float(Strip(form[f])).exc = ""
                    ELSE Strip(form[f]) # <<>>
        keys == RequiredKeys \cup {f \in NumericFields \cup TextFields : there(f)}
        data == [k \in keys |->
                   IF k = "action" THEN form[k]
                   ELSE IF k \in NumericFields THEN float(Strip(form[k])).val
                   ELSE Strip(form[k])]
    IN IF \A k \in RequiredKeys : data[k] # <<>> /\ Strip(data[k]) # <<>>
       THEN data ELSE None

\* data and all(data.get(field) for field in ['action', 'date', 'security'])
ValidData(data) == data # None /\ \A k \in RequiredKeys : data[k] # <<>>

\* update_transaction_list: one item per transaction, showing its date and
\* action, then its security, quantity and amount when they are truthy.
ItemOf(trans) ==
    [date |-> trans["date"], action |-> trans["action"],
     security |-> IF "security" \in DOMAIN trans /\ Truthy(trans["security"])
                  THEN trans["security"] ELSE None,
     quantity |-> IF "quantity" \in DOMAIN trans /\ trans["quantity"].v # 0
                  THEN trans["quantity"] ELSE NoneF,
     amount |-> IF "amount" \in DOMAIN trans /\ trans["amount"].v # 0
                THEN trans["amount"] ELSE NoneF]
update_transaction_list(ts) == [i \in 1..Len(ts) |-> ItemOf(ts[i])]

\* What the widgets of an accepted dialog hold.
BuyForm == [action |-> <<"Buy">>, date |-> Txt_MDY, security |-> <<"AAPL">>,
            price |-> <<>>, quantity |-> <<>>, commission |-> <<>>, amount |-> <<>>,
            account |-> <<>>, memo |-> <<>>]
Forms ==
    { BuyForm,
      [BuyForm EXCEPT !.action = <<"Sell">>, !.security = <<" ", "MSFT", " ">>,
                      !.price = Txt_Price],
      [BuyForm EXCEPT !.date = <<>>],
      [BuyForm EXCEPT !.security = <<" ">>],
      [BuyForm EXCEPT !.price = Txt_Abc] }
NoForm == [action |-> <<>>, date |-> <<>>, security |-> <<>>, price |-> <<>>,
           quantity |-> <<>>, commission |-> <<>>, amount |-> <<>>, account |-> <<>>,
           memo |-> <<>>]
DialogErrors == {"AttributeError", "TypeError", "ValueError", "RuntimeError"}
Dialogs ==
    [outcome : {"accept"}, exc : {""}, form : Forms]
      \cup [outcome : {"cancel"}, exc : {""}, form : {NoForm}]
      \cup [outcome : {"raise"}, exc : DialogErrors, form : {NoForm}]

InitGui ==
    /\ ConvIdle /\ DateIdle /\ RecIdle /\ CliIdle /\ GuiIdle /\ HandleIdle /\ FileIdle

\* add_transaction: no exception is caught here.
AddTransaction ==
    /\ Len(transactions) < MaxTransactions
    /\ \E dlg \in Dialogs :
          /\ gui_call' = [op |-> "add", idx |-> 0, dialog |-> dlg]
          /\ transactions_pre' = transactions
          /\ IF dlg.outcome = "raise"
             THEN gui_ret' = dlg.exc
                    /\ UNCHANGED <<transactions, transaction_list, current_row>>
             ELSE IF dlg.outcome = "accept" /\ ValidData(get_data(dlg.form))
             THEN /\ transactions' = Append(transactions, get_data(dlg.form))
                  /\ transaction_list' = update_transaction_list(transactions')
                  /\ current_row' = 0 - 1
                  /\ gui_ret' = "True"
             ELSE gui_ret' = "False"
                    /\ UNCHANGED <<transactions, transaction_list, current_row>>
    /\ UNCHANGED <<convVars, dateVars, recVars, cliVars, handleVars, fileVars>>

\* edit_transaction(item): item is an index, or a list item whose row is
\* looked up (-1 when the list does not hold it).
EditTransaction ==
    /\ \E idx \in (0 - 1)..MaxTransactions, dlg \in Dialogs :
          /\ gui_call' = [op |-> "edit", idx |-> idx, dialog |-> dlg]
          /\ transactions_pre' = transactions
          /\ IF idx < 0 \/ idx >= Len(transactions)
             THEN gui_ret' = "False"
                    /\ UNCHANGED <<transactions, transaction_list, current_row>>
             ELSE IF dlg.outcome = "raise"
             THEN /\ gui_ret' = IF dlg.exc \in {"AttributeError", "TypeError", "ValueError"}
                                 THEN "False" ELSE dlg.exc
                  /\ UNCHANGED <<transactions, transaction_list, current_row>>
             ELSE IF dlg.outcome = "accept" /\ get_data(dlg.form) # None
             THEN /\ transactions' = [transactions EXCEPT ![idx + 1] = get_data(dlg.form)]
                  /\ transaction_list' = update_transaction_list(transactions')
                  /\ current_row' = 0 - 1
                  /\ gui_ret' = "True"
             ELSE gui_ret' = "False"
                    /\ UNCHANGED <<transactions, transaction_list, current_row>>
    /\ UNCHANGED <<convVars, dateVars, recVars, cliVars, handleVars, fileVars>>

\* The user selects a row of the list widget, or none.
SelectRow ==
    /\ \E row \in (0 - 1)..(Len(transaction_list) - 1) :
          /\ row # current_row
          /\ current_row' = row
          /\ gui_call' = [op |-> "select", idx |-> row]
    /\ gui_ret' = "none"
    /\ transactions_pre' = transactions
    /\ UNCHANGED <<transactions, transaction_list>>
    /\ UNCHANGED <<convVars, dateVars, recVars, cliVars, handleVars, fileVars>>

\* self.transactions.pop(idx)
Pop(ts, idx) == [j \in 1..(Len(ts) - 1) |-> IF j <= idx THEN ts[j] ELSE ts[j + 1]]

\* delete_transaction removing the last transaction of the list.
DeleteTransaction_Last ==
    /\ gui_call' = [op |-> "delete", idx |-> current_row]
    /\ transactions_pre' = transactions
    /\ gui_ret' = "None"
    /\ IF current_row >= 0 /\ current_row < Len(transactions)
       THEN /\ transactions' = Pop(transactions, Len(transactions) - 1)
            /\ transaction_list' = update_transaction_list(transactions')
            /\ current_row' = 0 - 1
       ELSE UNCHANGED <<transactions, transaction_list, current_row>>
    /\ UNCHANGED <<convVars, dateVars, recVars, cliVars, handleVars, fileVars>>

\* delete_transaction: the current row of the list widget is the index.
DeleteTransaction ==
    /\ gui_call' = [op |-> "delete", idx |-> current_row]
    /\ transactions_pre' = transactions
    /\ gui_ret' = "None"
    /\ IF current_row >= 0 /\ current_row < Len(transactions)
       THEN /\ transactions' = Pop(transactions, current_row)
            /\ transaction_list' = update_transaction_list(transactions')
            /\ current_row' = 0 - 1
       ELSE UNCHANGED <<transactions, transaction_list, current_row>>
    /\ UNCHANGED <<convVars, dateVars, recVars, cliVars, handleVars, fileVars>>

\* duplicate_transaction putting the copy in front of the selected row.
DuplicateTransaction_Insert ==
    /\ Len(transactions) < MaxTransactions
    /\ \E dlg \in Dialogs :
          /\ gui_call' = [op |-> "duplicate", idx |-> current_row, dialog |-> dlg]
          /\ transactions_pre' = transactions
          /\ IF current_row < 0 \/ current_row >= Len(transactions)
             THEN gui_ret' = "False"
                    /\ UNCHANGED <<transactions, transaction_list, current_row>>
             ELSE IF dlg.outcome = "raise"
             THEN gui_ret' = dlg.exc
                    /\ UNCHANGED <<transactions, transaction_list, current_row>>
             ELSE IF dlg.outcome = "accept" /\ ValidData(get_data(dlg.form))
             THEN /\ transactions' = SubSeq(transactions, 1, current_row)
                                       \o <<get_data(dlg.form)>>
                                       \o SubSeq(transactions, current_row + 1,
                                                 Len(transactions))
                  /\ transaction_list' = update_transaction_list(transactions')
                  /\ current_row' = 0 - 1
                  /\ gui_ret' = "True"
             ELSE gui_ret' = "False"
                    /\ UNCHANGED <<transactions, transaction_list, current_row>>
    /\ UNCHANGED <<convVars, dateVars, recVars, cliVars, handleVars, fileVars>>

\* duplicate_transaction: no exception is caught here; currentItem() is
\* None exactly when no row is current.
DuplicateTransaction ==
    /\ Len(transactions) < MaxTransactions
    /\ \E dlg \in Dialogs :
          /\ gui_call' = [op |-> "duplicate", idx |-> current_row, dialog |-> dlg]
          /\ transactions_pre' = transactions
          /\ IF current_row < 0 \/ current_row >= Len(transactions)
             THEN gui_ret' = "False"
                    /\ UNCHANGED <<transactions, transaction_list, current_row>>
             ELSE IF dlg.outcome = "raise"
             THEN gui_ret' = dlg.exc
                    /\ UNCHANGED <<transactions, transaction_list, current_row>>
             ELSE IF dlg.outcome = "accept" /\ ValidData(get_data(dlg.form))
             THEN /\ transactions' = Append(transactions, get_data(dlg.form))
                  /\ transaction_list' = update_transaction_list(transactions')
                  /\ current_row' = 0 - 1
                  /\ gui_ret' = "True"
             ELSE gui_ret' = "False"
                    /\ UNCHANGED <<transactions, transaction_list, current_row>>
    /\ UNCHANGED <<convVars, dateVars, recVars, cliVars, handleVars, fileVars>>

(***************************************************************************)
(* import_csv.  The file the file dialog names is the environment's        *)
(* choice: no name (the dialog was cancelled), the name of no file, or a   *)
(* file with its header cells and the cells of its rows.                   *)
(***************************************************************************)
required_fields == <<"Transaction Type", "Trade Date", "Symbol">>

\* all(row.get(field, '').strip() for field in required_fields): the cells
\* are looked at in order; a missing cell (None) has no strip().
RequiredCheck(row) ==
    LET bad == {i \in 1..Len(required_fields) :
                   \/ row[required_fields[i]] = None
                   \/ Strip(row[required_fields[i]]) = <<>>}
        first == CHOOSE i \in bad : \A j \in bad : i <= j
    IN IF bad = {} THEN ""
       ELSE IF row[required_fields[first]] = None THEN "AttributeError"
       ELSE "skip"

\* if col in row and row[col].strip(): ... float(row[col]) / row[col].strip()
OptionalCell(row, col, numeric) ==
    IF col \notin DOMAIN row THEN [exc |-> "", there |-> FALSE]
    ELSE IF row[col] = None THEN [exc |-> "AttributeError", there |-> FALSE]
    ELSE IF Strip(row[col]) = <<>> THEN [exc |-> "", there |-> FALSE]
    ELSE IF numeric /\ float(row[col]).exc # "" THEN [exc |-> "ValueError", there |-> FALSE]
    ELSE [exc |-> "", there |-> TRUE]

\* The body of the loop (lines 305-332) for one row: the transaction, or
\* why there is none.
ImportRow(row) ==
    LET req == RequiredCheck(row)
        cells == [price |-> OptionalCell(row, "Price", TRUE),
                  quantity |-> OptionalCell(row, "Quantity", TRUE),
                  commission |-> OptionalCell(row, "Commission", TRUE),
                  memo |-> OptionalCell(row, "Notes", FALSE)]
        column == [price |-> "Price", quantity |-> "Quantity",
                   commission |-> "Commission", memo |-> "Notes"]
        exc == IF req # "" THEN req
               ELSE FirstExc(<<cells.price, cells.quantity, cells.commission, cells.memo>>)
        keys == RequiredKeys \cup {k \in DOMAIN cells : cells[k].there}
    IN [exc |-> exc,
        trans |-> IF exc # "" THEN <<>>
                  ELSE [k \in keys |->
                          CASE k = "action" -> Strip(row["Transaction Type"])
                            [] k = "date" -> Strip(row["Trade Date"])
                            [] k = "security" -> Strip(row["Symbol"])
                            [] k = "memo" -> Strip(row["Notes"])
                            [] OTHER -> float(row[column[k]]).val]]

\* import_csv up to the update of the list: what it returns and the rows
\* it appends.
import_csv(f) ==
    LET rows == [i \in 1..Len(f.rows) |-> ImportRow(HeaderRow(f.header, f.rows[i]))]
        valid == SelectSeq(rows, LAMBDA r : r.exc = "")
        valid_rows == [i \in 1..Len(valid) |-> valid[i].trans]
        fail == [ret |-> "False", valid_rows |-> <<>>]
    IN IF ~f.chosen THEN fail
       ELSE IF ~f.exists THEN fail                                \* FileNotFoundError
       ELSE IF f.header = <<>> THEN fail                          \* no fieldnames
       ELSE IF \E i \in 1..Len(required_fields) :
                  required_fields[i] \notin FieldNames(f.header) THEN fail
       ELSE IF \E i \in 1..Len(rows) : rows[i].exc = "AttributeError"
       THEN fail                                                  \* except Exception
       ELSE IF valid_rows = <<>> THEN fail
       ELSE [ret |-> "True", valid_rows |-> valid_rows]

\* The cells of the rows of an imported file.
ZeroCommissionCells ==
    << <<"Sell">>, Txt_DMY, <<" ", "MSFT", " ">>, Txt_Blank, Txt_Qty, Txt_Zero, <<>>,
       <<>>, <<>> >>
ImportCells ==
    { GoodCells,
      ZeroCommissionCells,
      With(GoodCells, 3, Txt_Blank),
      With(GoodCells, 5, Txt_Abc),
      SubSeq(GoodCells, 1, 3) }
H_Required == SubSeq(H_Full, 1, 3)
CsvFile(h, rows) == [chosen |-> TRUE, exists |-> TRUE, header |-> h, rows |-> rows]
ImportFiles ==
    { [chosen |-> FALSE, exists |-> FALSE, header |-> <<>>, rows |-> <<>>],
      [chosen |-> TRUE, exists |-> FALSE, header |-> <<>>, rows |-> <<>>],
      CsvFile(<<>>, <<>>),
      CsvFile(<< <<"invalid">>, <<"csv">> >>, << <<Txt_Zero, Txt_Zero>> >>),
      CsvFile([H_Full EXCEPT ![3] = <<"Ticker">>], <<GoodCells>>),
      CsvFile(H_Required, <<SubSeq(GoodCells, 1, 3)>>) }
      \cup {CsvFile(H_Full, rows) : rows \in UNION {[1..n -> ImportCells] : n \in 0..MaxRows}}

ImportCsv ==
    /\ \E f \in ImportFiles :
          /\ Len(transactions) + Len(f.rows) <= MaxTransactions
          /\ gui_call' = [op |-> "import", file |-> f]
          /\ gui_ret' = import_csv(f).ret
          /\ IF import_csv(f).ret = "True"
             THEN /\ transactions' = transactions \o import_csv(f).valid_rows
                  /\ transaction_list' = update_transaction_list(transactions')
                  /\ current_row' = 0 - 1
             ELSE UNCHANGED <<transactions, transaction_list, current_row>>
    /\ transactions_pre' = transactions
    /\ UNCHANGED <<convVars, dateVars, recVars, cliVars, handleVars, fileVars>>

NextGui == AddTransaction \/ EditTransaction \/ SelectRow \/ DeleteTransaction
             \/ DuplicateTransaction \/ ImportCsv

SpecGui == InitGui /\ [][NextGui]_vars

(***************************************************************************)
(* export_qif.  The name the file dialog returns is the environment's      *)
(* choice, and so is whether the file can be opened for writing.           *)
(***************************************************************************)
\* trans.get(field) and str(trans[field]).strip(), for the three fields
ExportValid(trans) ==
    \A k \in RequiredKeys :
        k \in DOMAIN trans /\ Truthy(trans[k]) /\ Strip(Str(trans[k])) # <<>>

\* The lines written for one transaction (lines 391-404).
ExportBlock(trans) ==
    <<Line("D", trans["date"]), Line("N", trans["action"]), Line("Y", trans["security"])>>
      \o (IF "price" \in DOMAIN trans /\ ~trans["price"].isNone
            THEN <<Line("I", FormatFixed(trans["price"].v, 4))>> ELSE <<>>)
      \o (IF "quantity" \in DOMAIN trans /\ ~trans["quantity"].isNone
            THEN <<Line("Q", FormatFixed(trans["quantity"].v, 4))>> ELSE <<>>)
      \o (IF "commission" \in DOMAIN trans /\ ~trans["commission"].isNone
            THEN <<Line("O", FormatFixed(trans["commission"].v, 2))>> ELSE <<>>)
      \o (IF "memo" \in DOMAIN trans /\ Truthy(trans["memo"])
            THEN <<Line("M", trans["memo"])>> ELSE <<>>)
      \o <<Caret>>

RECURSIVE ExportBlocks(_)
ExportBlocks(ts) == IF ts = <<>> THEN <<>>
                    ELSE ExportBlock(Head(ts)) \o ExportBlocks(Tail(ts))

\* What the file holds after the with block of lines 384-404.
ExportLines(ts) == <<Line("!Type:Invst", <<>>)>> \o ExportBlocks(SelectSeq(ts, ExportValid))

\* The names the save dialog returns: none, blanks, a name without and
\* with the extension.
ExportNames == {<<>>, <<" ">>, <<"out">>, <<"out", ".qif">>}

\* export_qif writing the header before it looks at the list.
ExportQif_HeaderFirst ==
    /\ \E name \in ExportNames, opens \in BOOLEAN :
          /\ gui_call' = [op |-> "export", name |-> name, opens |-> opens]
          /\ IF \/ Strip(name) = <<>>
                \/ ~opens
             THEN gui_ret' = "False" /\ UNCHANGED out_file
             ELSE IF SelectSeq(transactions, ExportValid) = <<>>
             THEN /\ out_file' = [exists |-> TRUE, lines |-> ExportLines(transactions)]
                  /\ gui_ret' = "False"
             ELSE /\ out_file' = [exists |-> TRUE, lines |-> ExportLines(transactions)]
                  /\ gui_ret' = "True"
    /\ transactions_pre' = transactions
    /\ UNCHANGED <<transactions, transaction_list, current_row>>
    /\ UNCHANGED <<convVars, dateVars, recVars, cliVars, handleVars>>

\* export_qif: open(filename, 'w') replaces what the file held.
ExportQif ==
    /\ \E name \in ExportNames, opens \in BOOLEAN :
          /\ gui_call' = [op |-> "export", name |-> name, opens |-> opens]
          /\ IF \/ transactions = <<>>
                \/ Strip(name) = <<>>
                \/ SelectSeq(transactions, ExportValid) = <<>>
                \/ ~opens                                        \* IOError, OSError
             THEN gui_ret' = "False" /\ UNCHANGED out_file
             ELSE /\ out_file' = [exists |-> TRUE, lines |-> ExportLines(transactions)]
                  /\ gui_ret' = "True"
    /\ transactions_pre' = transactions
    /\ UNCHANGED <<transactions, transaction_list, current_row>>
    /\ UNCHANGED <<convVars, dateVars, recVars, cliVars, handleVars>>

\* The lists export_qif is called with: the empty one, lists the handlers
\* build, and lists assigned to the attribute with a transaction whose
\* security or date is empty.
BuyTransaction == get_data(BuyForm)
ExportLists ==
    { <<>>,
      <<BuyTransaction>>,
      <<[BuyTransaction EXCEPT !["security"] = <<" ">>]>>,
      <<[BuyTransaction EXCEPT !["date"] = <<>>], BuyTransaction>>,
      <<[BuyTransaction EXCEPT !["security"] = <<>>],
        [BuyTransaction EXCEPT !["action"] = <<>>]>> }

InitExport ==
    /\ ConvIdle /\ DateIdle /\ RecIdle /\ CliIdle /\ HandleIdle
    /\ transactions \in ExportLists
    /\ transaction_list = update_transaction_list(transactions)
    /\ gui_call = [op |-> "none"]
    /\ gui_ret = "none"
    /\ transactions_pre = transactions
    /\ current_row = 0 - 1
    /\ out_file \in {NoFile, [exists |-> TRUE, lines |-> <<PriorLine>>]}

NextExport == ImportCsv \/ ExportQif

SpecExport == InitExport /\ [][NextExport]_vars

(***************************************************************************)
(* Vocabulary of the properties.                                           *)
(***************************************************************************)
IsPrefix(a, b) == Len(a) <= Len(b) /\ SubSeq(b, 1, Len(a)) = a
\* What the current call has appended to the destination so far.
Appended == SubSeq(qif, Len(qif_at_call) + 1, Len(qif))
TypeTags == {"!Type:Bank", "!Type:Cash", "!Type:Invst", "!Type:CCard", "!Type:Oth A",
             "!Type:Oth L"}
HeaderPositions(f) == {i \in 1..Len(f) : f[i].tag \in TypeTags}
CaretPositions(f) == {i \in 1..Len(f) : f[i] = Caret}
\* The call got past the validation of the mapping and wrote its header.
PastHeader == \/ pc \in {"header_written", "loop", "returned"}
              \/ pc = "raised" /\ raised # "KeyError"
\* The n-th record block of f: the lines after the previous terminator (or
\* after the header) up to and including the n-th terminator.
NthBlock(f, n) ==
    LET stop == CHOOSE p \in CaretPositions(f) :
                   Cardinality({q \in CaretPositions(f) : q <= p}) = n
        before == {q \in CaretPositions(f) \cup HeaderPositions(f) : q < stop}
        start == IF before = {} THEN 1
                 ELSE (CHOOSE q \in before : \A r \in before : r <= q) + 1
    IN SubSeq(f, start, stop)
\* The block that row i of the source gave, for a row that gave one.
BlockOfRow(i) == NthBlock(Appended, Cardinality({j \in 1..i : written[j]}))
HasTag(block, tag) == \E j \in 1..Len(block) : block[j].tag = tag
GoodRow == DictRow(GoodCells)
OptionalNumeric == {"price", "quantity", "commission", "amount"}
FieldTag == [price |-> "I", quantity |-> "Q", commission |-> "O", amount |-> "T"]
FieldColumn == [price |-> "Price", quantity |-> "Quantity", commission |-> "Commission",
                amount |-> "Amount"]
IsBlank(cell) == cell # None /\ \A i \in 1..Len(cell) : cell[i] = " "

(***************************************************************************)
(* C1.  A mapping that lacks a field required for the transaction type     *)
(* ('date', 'action', 'security' for 'investment'; 'date', 'amount'        *)
(* otherwise) makes csv_to_qif fail with KeyError before any row is read   *)
(* and before anything is written: the destination is what it was.         *)
(***************************************************************************)
C1_MappingErrorBeforeAnyOutput ==
    LET required == IF transaction_type = "investment"
                    THEN {"date", "action", "security"} ELSE {"date", "amount"}
    IN (calls > 0 /\ required \ DOMAIN mapping # {}) =>
          /\ pc = "raised" /\ raised = "KeyError"
          /\ cursor = 0 /\ written = <<>> /\ stdout = <<>>
          /\ qif = qif_at_call
          /\ qif \in PriorContents

C1_Witness ==
    /\ pc = "raised" /\ raised = "KeyError"
    /\ transaction_type = "investment" /\ "security" \notin DOMAIN mapping
    /\ csv # <<>>
    /\ qif = <<PriorLine>>

(***************************************************************************)
(* C2.  In a call with a valid mapping the header is written exactly once  *)
(* and before any record block, however many rows are skipped; it is       *)
(* !Type:Invst for 'investment' and !Type:Bank for 'cash', and no other    *)
(* type tag is produced.                                                   *)
(***************************************************************************)
C2_HeaderOnceAndFirst ==
    /\ PastHeader =>
          /\ HeaderPositions(Appended) = {1}
          /\ Appended[1] = Line(IF transaction_type = "investment"
                                THEN "!Type:Invst" ELSE "!Type:Bank", <<>>)
    /\ ~PastHeader => Appended = <<>>

C2_Witness ==
    /\ pc = "returned"
    /\ Len(csv) >= 2
    /\ \A i \in 1..Len(written) : ~written[i]
    /\ transaction_type = "cash"
    /\ Appended = <<Line("!Type:Bank", <<>>)>>

(***************************************************************************)
(* C3.  After csv_to_qif completes on a fresh destination, the file is     *)
(* the header followed by one record block per row that did not fail, in   *)
(* the order of the rows; skipped rows contribute nothing, so there are    *)
(* as many '^' lines as rows that did not fail.                            *)
(***************************************************************************)
RECURSIVE BlocksFrom(_)
BlocksFrom(i) ==
    IF i > Len(csv) THEN <<>>
    ELSE (IF written[i]
          THEN to_qif(BuildTransaction(transaction_type, csv[i], mapping).txn)
          ELSE <<>>) \o BlocksFrom(i + 1)

C3_OneBlockPerGoodRowInOrder ==
    (pc = "returned" /\ qif_at_call = <<>>) =>
        /\ Len(written) = Len(csv)
        /\ qif = <<Line(IF transaction_type = "investment"
                        THEN "!Type:Invst" ELSE "!Type:Bank", <<>>)>> \o BlocksFrom(1)
        /\ Cardinality(CaretPositions(qif))
              = Cardinality({i \in 1..Len(written) : written[i]})
        /\ \A i \in 1..Len(csv) :
              written[i] <=> BuildTransaction(transaction_type, csv[i], mapping).exc = ""

C3_Witness ==
    /\ pc = "returned" /\ qif_at_call = <<>>
    /\ Len(csv) >= 2
    /\ written[1] /\ written[2] /\ csv[1] # csv[2]
    /\ NthBlock(qif, 1) # NthBlock(qif, 2)

(***************************************************************************)
(* C4.  A row-level data error (a date that does not normalise, text that  *)
(* is not a number in a numeric column, a mapped column missing from the   *)
(* row) never aborts csv_to_qif: the row is skipped, the later rows are    *)
(* processed and the call returns normally.                                *)
(***************************************************************************)
C4_RowErrorNeverAborts ==
    /\ ~(pc = "raised" /\ cursor > 0)
    /\ pc = "returned" => cursor = Len(csv)

(***************************************************************************)
(* C5.  In an investment conversion an optional numeric field (price,      *)
(* quantity, commission, amount) whose key is not in the mapping is        *)
(* treated as absent: a well-formed row still gives a record, and the      *)
(* record has no line for that field.                                      *)
(***************************************************************************)
C5_UnmappedNumericIsAbsent ==
    (transaction_type = "investment" /\ pc = "returned"
       /\ \A k \in DOMAIN mapping : mapping[k] \in ColumnSet) =>
        \A k \in OptionalNumeric \ DOMAIN mapping :
           \A i \in 1..Len(csv) :
              csv[i] = GoodRow =>
                 /\ written[i]
                 /\ ~HasTag(BlockOfRow(i), FieldTag[k])

(***************************************************************************)
(* C6.  In an investment conversion an optional numeric field whose cell   *)
(* is empty or blank (whitespace only) is treated as absent: the row is    *)
(* converted, not skipped, and its record has no line for that field.      *)
(***************************************************************************)
C6_BlankNumericIsAbsent ==
    (transaction_type = "investment" /\ pc = "returned"
       /\ OptionalNumeric \subseteq DOMAIN mapping
       /\ \A k \in DOMAIN mapping : mapping[k] \in ColumnSet) =>
        \A i \in 1..Len(csv) :
           ( /\ convert_date(csv[i]["Trade Date"]).ok
             /\ \A k \in OptionalNumeric :
                   \/ IsBlank(csv[i][FieldColumn[k]])
                   \/ float(csv[i][FieldColumn[k]]).exc = ""
             /\ \E k \in OptionalNumeric : IsBlank(csv[i][FieldColumn[k]]) ) =>
              /\ written[i]
              /\ \A k \in OptionalNumeric :
                    IsBlank(csv[i][FieldColumn[k]]) => ~HasTag(BlockOfRow(i), FieldTag[k])

(***************************************************************************)
(* C7.  csv_to_qif appends: what the destination held when the call began  *)
(* stays as an unchanged prefix, and the call's header and records follow  *)
(* it.  A second identical call therefore leaves two headers and every     *)
(* record twice.                                                           *)
(***************************************************************************)
C7_AppendSemantics ==
    /\ IsPrefix(qif_at_call, qif)
    /\ (pc = "returned" /\ calls >= 2) =>
          LET n == Len(Appended)
              m == Len(qif_at_call)
          IN /\ m >= n
             /\ SubSeq(qif_at_call, m - n + 1, m) = Appended
             /\ Cardinality(HeaderPositions(qif)) = calls
             /\ Cardinality(CaretPositions(qif))
                   = calls * Cardinality({i \in 1..Len(written) : written[i]})

C7_Witness ==
    /\ pc = "returned" /\ calls = 2
    /\ qif[1] = PriorLine
    /\ Cardinality(HeaderPositions(qif)) = 2
    /\ Cardinality(CaretPositions(qif)) >= 2

(***************************************************************************)
(* Dates of the calendar and their writings in the five patterns.          *)
(***************************************************************************)
SpecPatterns == <<"YYYY-MM-DD", "MM/DD/YYYY", "DD/MM/YYYY", "YYYY/MM/DD", "DD-MM-YYYY">>
CalDates == {cal \in [y : Years, m : SmallVals \cap (1..12), d : SmallVals] :
               cal.d >= 1 /\ cal.d <= DaysInMonth(cal.y, cal.m)}
P2(n) == ZeroPad(Dec(n), 2)
WriteDate(p, cal) ==
    CASE p = 1 -> Dec(cal.y) \o <<"-">> \o P2(cal.m) \o <<"-">> \o P2(cal.d)
      [] p = 2 -> P2(cal.m) \o <<"/">> \o P2(cal.d) \o <<"/">> \o Dec(cal.y)
      [] p = 3 -> P2(cal.d) \o <<"/">> \o P2(cal.m) \o <<"/">> \o Dec(cal.y)
      [] p = 4 -> Dec(cal.y) \o <<"/">> \o P2(cal.m) \o <<"/">> \o P2(cal.d)
      [] p = 5 -> P2(cal.d) \o <<"-">> \o P2(cal.m) \o <<"-">> \o Dec(cal.y)
\* The dates a string denotes under pattern p: its three groups are one or
\* two digits (four for the year) and name a day of the calendar.
ReadAs(p, s) ==
    {cal \in CalDates :
        \E mt \in {P2(cal.m), Dec(cal.m)}, dt \in {P2(cal.d), Dec(cal.d)} :
           s = CASE p = 1 -> Dec(cal.y) \o <<"-">> \o mt \o <<"-">> \o dt
                 [] p = 2 -> mt \o <<"/">> \o dt \o <<"/">> \o Dec(cal.y)
                 [] p = 3 -> dt \o <<"/">> \o mt \o <<"/">> \o Dec(cal.y)
                 [] p = 4 -> Dec(cal.y) \o <<"/">> \o mt \o <<"/">> \o dt
                 [] p = 5 -> dt \o <<"-">> \o mt \o <<"-">> \o Dec(cal.y)}
Converted == date_res # Pending

(***************************************************************************)
(* C8.  convert_date tries YYYY-MM-DD, MM/DD/YYYY, DD/MM/YYYY, YYYY/MM/DD,  *)
(* DD-MM-YYYY in that order and returns the first that parses, written as  *)
(* MM/DD/YYYY; so a slash date whose first two components are both at      *)
(* most 12 is read as month/day, and comes back unchanged when written     *)
(* in two digits.                                                          *)
(***************************************************************************)
C8_FirstPatternWins ==
    Converted =>
      /\ \A p \in 1..5 :
            (ReadAs(p, date_str) # {} /\ \A q \in 1..(p - 1) : ReadAs(q, date_str) = {}) =>
               /\ date_res.ok
               /\ \E cal \in ReadAs(p, date_str) : date_res.val = WriteDate(2, cal)
      /\ \A cal \in CalDates :
            (cal.d <= 12 /\ date_str \in {WriteDate(2, cal),
                    Dec(cal.m) \o <<"/">> \o Dec(cal.d) \o <<"/">> \o Dec(cal.y)}) =>
               date_res.ok /\ date_res.val = WriteDate(2, cal)
      /\ \A cal \in CalDates :
            (cal.d <= 12 /\ date_str = WriteDate(2, cal)) => date_res.val = date_str

C8_Witness ==
    /\ Converted /\ date_res.ok
    /\ date_str = <<"0", "1", "/", "0", "2", "/", "2", "0", "2", "4">>
    /\ date_res.val = date_str

(***************************************************************************)
(* C9.  As claimed: for every calendar date, its writings in the five      *)
(* patterns all convert to the identical MM/DD/YYYY output.                *)
(***************************************************************************)
C9_AllFivePatternsAgree ==
    Converted =>
      \A cal \in CalDates : \A p \in 1..5 :
         date_str = WriteDate(p, cal) =>
            \A q \in 1..5 : convert_date(WriteDate(q, cal)) = date_res

(***************************************************************************)
(* C9, amended.  The YYYY-MM-DD, MM/DD/YYYY, YYYY/MM/DD and DD-MM-YYYY      *)
(* writings of a calendar date all convert to its MM/DD/YYYY writing; the  *)
(* DD/MM/YYYY writing does so only when the day is greater than 12 or      *)
(* equal to the month, and otherwise is read as MM/DD/YYYY and converts    *)
(* to the date with day and month exchanged.                               *)
(***************************************************************************)
C9_PatternsAgreeUnlessAmbiguous ==
    Converted =>
      \A cal \in CalDates : \A p \in 1..5 :
         date_str = WriteDate(p, cal) =>
            /\ date_res.ok
            /\ IF p = 3 /\ cal.d <= 12 /\ cal.d # cal.m
               THEN date_res.val = WriteDate(2, [cal EXCEPT !.m = cal.d, !.d = cal.m])
               ELSE date_res.val = WriteDate(2, cal)

C9_Witness ==
    /\ Converted /\ date_res.ok
    /\ \E cal \in CalDates :
          /\ cal.d <= 12 /\ cal.d # cal.m /\ cal.m = 12
          /\ date_str = WriteDate(3, cal)
          /\ date_res.val # WriteDate(2, cal)
          /\ convert_date(WriteDate(5, cal)).val = WriteDate(2, cal)

(***************************************************************************)
(* C10.  convert_date on a string that matches none of the five patterns   *)
(* returns no value: it raises ValueError, and the error carries the       *)
(* string.                                                                 *)
(***************************************************************************)
C10_NoPatternNoValue ==
    (Converted /\ \A k \in 1..Len(SpecPatterns) : ~strptime(date_str, Formats[k]).ok) =>
       /\ ~date_res.ok
       /\ date_res.val = <<>>
       /\ date_res.exc = "ValueError"
       /\ date_res.arg = Str(date_str)

C10_Witness ==
    /\ Converted
    /\ date_str = Txt_Invalid
    /\ ~date_res.ok /\ date_res.exc = "ValueError" /\ date_res.arg = Txt_Invalid

(***************************************************************************)
(* Vocabulary of the properties of a single record.                        *)
(***************************************************************************)
Serialised == rec # NoTransaction /\ rec_lines # <<>>
\* The place of tag in order, 0 when it is not there.
Rank(order, tag) == IF \E i \in 1..Len(order) : order[i] = tag
                    THEN CHOOSE i \in 1..Len(order) : order[i] = tag
                    ELSE 0
\* Every line's tag is in order, and the lines stand in that order, no tag
\* twice.
InOrder(f, order) ==
    /\ \A i \in 1..Len(f) : Rank(order, f[i].tag) > 0
    /\ \A i, j \in 1..Len(f) : i < j => Rank(order, f[i].tag) < Rank(order, f[j].tag)

(***************************************************************************)
(* C11.  to_qif of any QIFInvestmentTransaction ends with the line '^',    *)
(* always has the D and N lines, has each of Y, I, Q, T, L, M exactly when *)
(* security, price, quantity, amount, account, memo is not None, and has   *)
(* O exactly when commission is neither None nor zero.                     *)
(***************************************************************************)
C11_FieldLineIffNonNull ==
    (Serialised /\ rec.kind = "investment") =>
       /\ rec_lines[Len(rec_lines)] = Caret
       /\ HasTag(rec_lines, "D") /\ HasTag(rec_lines, "N")
       /\ HasTag(rec_lines, "Y") <=> rec.security # None
       /\ HasTag(rec_lines, "I") <=> ~rec.price.isNone
       /\ HasTag(rec_lines, "Q") <=> ~rec.quantity.isNone
       /\ HasTag(rec_lines, "T") <=> ~rec.amount.isNone
       /\ HasTag(rec_lines, "L") <=> rec.account # None
       /\ HasTag(rec_lines, "M") <=> rec.memo # None
       /\ HasTag(rec_lines, "O") <=> (~rec.commission.isNone /\ rec.commission.v # 0)

(***************************************************************************)
(* C12.  The lines to_qif gives for an investment record stand in the      *)
(* order D, N, Y, I, Q, O, T, L, M, '^', each kind at most once, whichever *)
(* optional attributes are there.                                          *)
(***************************************************************************)
C12_InvestmentLineOrder ==
    (Serialised /\ rec.kind = "investment") =>
       InOrder(rec_lines, <<"D", "N", "Y", "I", "Q", "O", "T", "L", "M", "^">>)

C12_Witness ==
    /\ Serialised /\ rec.kind = "investment"
    /\ Len(rec_lines) = 10
    /\ rec_lines[6].tag = "O" /\ rec_lines[7].tag = "T"

(***************************************************************************)
(* C13.  to_qif of any QIFTransaction gives D, T, then P, M, L, N each     *)
(* only when payee, memo, category, check_num is there, then '^', in that  *)
(* order; the record with every field set gives exactly seven lines.       *)
(***************************************************************************)
FullBankRecord ==
    [kind |-> "cash", date |-> Txt_MDY, amount |-> Float(0 - 12345600),
     payee |-> <<"Test Payee">>, memo |-> <<"Test memo">>,
     category |-> <<"Expenses:Test">>, check_num |-> <<"1001">>]

C13_BankLines ==
    (Serialised /\ rec.kind = "cash") =>
       /\ InOrder(rec_lines, <<"D", "T", "P", "M", "L", "N", "^">>)
       /\ rec_lines[1] = Line("D", rec.date)
       /\ rec_lines[2].tag = "T"
       /\ rec_lines[Len(rec_lines)] = Caret
       /\ HasTag(rec_lines, "P") => rec.payee # None
       /\ HasTag(rec_lines, "M") => rec.memo # None
       /\ HasTag(rec_lines, "L") => rec.category # None
       /\ HasTag(rec_lines, "N") => rec.check_num # None
       /\ rec = FullBankRecord =>
             rec_lines = << Line("D", Txt_MDY),
                            Line("T", <<"-", "1", "2", "3", "4", ".", "5", "6">>),
                            Line("P", <<"Test Payee">>), Line("M", <<"Test memo">>),
                            Line("L", <<"Expenses:Test">>), Line("N", <<"1001">>),
                            Caret >>

C13_Witness == Serialised /\ rec = FullBankRecord /\ Len(rec_lines) = 7

(***************************************************************************)
(* Vocabulary of the properties of converted rows.                         *)
(***************************************************************************)
\* The rows the current call has been handed so far.
Handed == 1..Len(written)
Investment == transaction_type = "investment"
\* The cell parses, and to the number zero.
ParsesToZero(cell) == float(cell).exc = "" /\ float(cell).val.v = 0
ParsesToNonZero(cell) == float(cell).exc = "" /\ float(cell).val.v # 0
ZeroCommissionRow == DictRow(With(GoodCells, 6, Txt_Zero))
NoCommissionRow == DictRow(With(GoodCells, 6, <<>>))
UnknownActionRow == DictRow(With(GoodCells, 1, <<"Frobnicate">>))
EmptyActionRow == DictRow(With(GoodCells, 1, <<>>))
\* MM/DD/YYYY
IsCanonicalDate(t) ==
    /\ Len(t) = 10
    /\ t[3] = "/" /\ t[6] = "/"
    /\ \A i \in {1, 2, 4, 5, 7, 8, 9, 10} : t[i] \in Digit
    /\ IntOf(SubSeq(t, 1, 2)) \in 1..12
    /\ IntOf(SubSeq(t, 4, 5)) \in 1..31

(***************************************************************************)
(* C14.  In an investment conversion a row whose commission cell parses to *)
(* exactly 0 is converted, its record has no O line, and the record is the *)
(* one the same row with an empty commission cell gives; a commission that *)
(* parses to a non-zero number gives an O line.                            *)
(***************************************************************************)
C14_ZeroCommissionIsAbsent ==
    (Investment /\ "commission" \in DOMAIN mapping /\ mapping["commission"] = "Commission")
    => /\ \A i \in Handed :
            (csv[i] = ZeroCommissionRow /\ {"price", "quantity"} \subseteq DOMAIN mapping
               /\ mapping["date"] \in ColumnSet)
            => written[i]
       /\ \A i \in Handed :
            (written[i] /\ ParsesToZero(csv[i]["Commission"]))
            => ~HasTag(BlockOfRow(i), "O")
       /\ \A i, j \in Handed :
            (/\ ParsesToZero(csv[i]["Commission"])
             /\ csv[j] = [csv[i] EXCEPT !["Commission"] = <<>>])
            => /\ written[i] = written[j]
               /\ written[i] => BlockOfRow(i) = BlockOfRow(j)
       /\ \A i \in Handed :
            (written[i] /\ ParsesToNonZero(csv[i]["Commission"]))
            => HasTag(BlockOfRow(i), "O")

C14_Witness ==
    /\ Investment /\ mapping = InvestmentMapping /\ pc = "returned"
    /\ csv = <<ZeroCommissionRow, NoCommissionRow>>
    /\ written = <<TRUE, TRUE>>
    /\ ~HasTag(BlockOfRow(1), "O")

C16_ExpectedFile ==
    << Line("!Type:Invst", <<>>),
       Line("D", Txt_MDY),
       Line("N", <<"Buy">>),
       Line("Y", <<"AAPL">>),
       Line("I", <<"1", "8", "5", ".", "9", "2", "0", "0">>),
       Line("Q", <<"1", "0", ".", "0", "0", "0", "0">>),
       Line("O", <<"4", ".", "9", "5">>),
       Line("M", <<"Initial position">>),
       Caret >>

C16_FullRowEndToEnd ==
    (/\ pc = "returned" /\ calls = 1
     /\ Investment /\ mapping = InvestmentMapping
     /\ csv = <<GoodRow>> /\ qif_at_call = <<>>)
    => qif = C16_ExpectedFile

C16_Witness ==
    /\ pc = "returned" /\ calls = 1
    /\ Investment /\ mapping = InvestmentMapping
    /\ csv = <<GoodRow>> /\ qif_at_call = <<>>
    /\ Len(qif) = 9

(***************************************************************************)
(* C17.  Every record csv_to_qif writes has a D line holding a date in the *)
(* form MM/DD/YYYY, and a T line (cash) or an N line with a non-empty      *)
(* action (investment); a row whose action or date cell is empty or        *)
(* missing gives no record.                                                *)
(***************************************************************************)
C17_MandatoryAttributesPresent ==
    MissingFields(transaction_type, mapping) = {}
    => \A i \in Handed :
          written[i] =>
             /\ BlockOfRow(i)[1].tag = "D"
             /\ IsCanonicalDate(BlockOfRow(i)[1].text)
             /\ Truthy(Get(csv[i], mapping["date"]))
             /\ IF Investment
                THEN /\ BlockOfRow(i)[2].tag = "N"
                     /\ BlockOfRow(i)[2].text # <<>>
                     /\ Truthy(Get(csv[i], mapping["action"]))
                ELSE BlockOfRow(i)[2].tag = "T"

(***************************************************************************)
(* C18.  An investment conversion whose mapping has the key 'account'      *)
(* gives, for a row whose account cell is not empty, a record with the     *)
(* line L[<account>].                                                      *)
(***************************************************************************)
C18_TransferAccountLine ==
    (Investment /\ MissingFields(transaction_type, mapping) = {}
       /\ "account" \in DOMAIN mapping)
    => \A i \in Handed :
          (written[i] /\ Truthy(Get(csv[i], mapping["account"])))
          => \E k \in 1..Len(BlockOfRow(i)) :
                BlockOfRow(i)[k] = Line("L", <<"[">> \o csv[i][mapping["account"]] \o <<"]">>)

(***************************************************************************)
(* C19.  When a column named by the effective mapping of main (the         *)
(* defaults overridden by --mapping) is absent from the header of the      *)
(* file, main exits with failure without calling csv_to_qif: the           *)
(* destination is neither created nor modified.                            *)
(***************************************************************************)
C19_MissingColumnIsConfigurationError ==
    (/\ cli_pc \in {"calling", "exit0", "exit1"}
     /\ csv_exists
     /\ \E k \in DOMAIN EffectiveMapping(cli_args) :
           EffectiveMapping(cli_args)[k] \notin FieldNames(header))
    => /\ cli_pc = "exit1"
       /\ calls = 0
       /\ qif = qif_at_call

(***************************************************************************)
(* C20.  edit_transaction replaces exactly the transaction at the given    *)
(* index and returns True only when the index is in range, the dialog is   *)
(* accepted and its data is valid; with an index below zero or past the    *)
(* end, a cancelled dialog, invalid data or an error raised by the dialog  *)
(* it returns False and the list is unchanged; the length of the list      *)
(* never changes.                                                          *)
(***************************************************************************)
C20_EditReplacesOneOrNothing ==
    gui_call.op = "edit" =>
       LET idx == gui_call.idx
           form == gui_call.dialog.form
           ok == /\ idx >= 0 /\ idx < Len(transactions_pre)
                 /\ gui_call.dialog.outcome = "accept"
                 /\ \A k \in RequiredKeys : Strip(form[k]) # <<>>
       IN /\ Len(transactions) = Len(transactions_pre)
          /\ gui_ret = "True" => ok
          /\ ok => /\ gui_ret = "True"
                   /\ \A j \in 1..Len(transactions) :
                         j # idx + 1 => transactions[j] = transactions_pre[j]
                   /\ transactions[idx + 1]["action"] = form["action"]
                   /\ transactions[idx + 1]["date"] = Strip(form["date"])
                   /\ transactions[idx + 1]["security"] = Strip(form["security"])
          /\ ~ok => gui_ret = "False" /\ transactions = transactions_pre

(***************************************************************************)
(* C25.  During csv_to_qif the destination only grows: what it holds after *)
(* a step extends what it held before, so the records of earlier rows stay *)
(* when a later row fails; and within one call the reader only moves       *)
(* forward, one row at a time, so a skipped row is never taken up again.   *)
(***************************************************************************)
C25_DestinationOnlyGrows ==
    [][/\ IsPrefix(qif, qif')
       /\ calls' = calls => /\ cursor' \in {cursor, cursor + 1}
                            /\ IsPrefix(written, written')
                            /\ Len(written') = cursor']_vars

C25_Witness ==
    /\ pc = "returned"
    /\ written = <<TRUE, FALSE>>
    /\ Cardinality(CaretPositions(Appended)) = 1
    /\ Appended[Len(Appended)] = Caret

(***************************************************************************)
(* C26.  csv_to_qif prints a diagnostic (the row and the error) for        *)
(* exactly the rows it skips: after every step the diagnostics printed are *)
(* those of the rows skipped so far, one each and in the order of the      *)
(* rows, and a row that gave a record has none.                            *)
(***************************************************************************)
\* The rows handed out so far that were skipped; a row whose exception left
\* the call is the last one handed out and is not among them.
SkippedRows == {i \in Handed : ~written[i] /\ ~(pc = "raised" /\ i = Len(written))}
NthSkipped(k) == CHOOSE i \in SkippedRows :
                    Cardinality({j \in SkippedRows : j <= i}) = k

C26_OneDiagnosticPerSkippedRow ==
    /\ Len(stdout) = Cardinality(SkippedRows)
    /\ \A k \in 1..Len(stdout) :
          /\ stdout[k].row = csv[NthSkipped(k)]
          /\ stdout[k].exc \in {"ValueError", "KeyError"}

C26_Witness ==
    /\ pc = "loop"
    /\ written = <<FALSE, TRUE>>
    /\ Len(stdout) = 1 /\ stdout[1].row = csv[1]

(***************************************************************************)
(* C30.  When the source CSV cannot be opened csv_to_qif fails with the    *)
(* I/O error and the destination is what it was before the call: nothing,  *)
(* not even the header, has been written.                                  *)
(***************************************************************************)
C30_SourceFailureLeavesDestination ==
    (~csv_exists /\ pc = "raised" /\ MissingFields(transaction_type, mapping) = {})
    => /\ raised = "FileNotFoundError"
       /\ qif = qif_at_call

(***************************************************************************)
(* C27.  csv_to_qif never leaves a handle on the destination open: the     *)
(* handle is closed after every header or record write, and none is open   *)
(* once the call has returned or raised, whether it completed, skipped     *)
(* rows, rejected the mapping or could not open the source.                *)
(***************************************************************************)
C27_DestinationHandleReleased ==
    /\ dest_open \in {0, 1}
    /\ dest_open = 1 <=> pc \in {"header_open", "header_put", "header_failed",
                                  "txn_open", "txn_put", "txn_failed"}
    /\ pc \in {"idle", "returned", "raised", "header_written", "loop"} => dest_open = 0

C27_Witness ==
    /\ pc = "returned"
    /\ written = <<FALSE, TRUE>>
    /\ Len(stdout) = 1
    /\ Len(qif) > Len(qif_at_call)
    /\ dest_open = 0

C22_DuplicateAppendsOneOrNothing ==
    gui_call.op = "duplicate" =>
       LET selected == gui_call.idx >= 0 /\ gui_call.idx < Len(transactions_pre)
           dlg == gui_call.dialog
           valid == \A k \in RequiredKeys : Strip(dlg.form[k]) # <<>>
           n == Len(transactions_pre)
       IN /\ (selected /\ dlg.outcome = "accept" /\ valid) =>
                /\ gui_ret = "True"
                /\ Len(transactions) = n + 1
                /\ SubSeq(transactions, 1, n) = transactions_pre
                /\ transactions[n + 1]["action"] = dlg.form["action"]
                /\ transactions[n + 1]["date"] = Strip(dlg.form["date"])
                /\ transactions[n + 1]["security"] = Strip(dlg.form["security"])
          /\ (\/ ~selected
              \/ dlg.outcome = "cancel"
              \/ dlg.outcome = "accept" /\ ~valid) =>
                gui_ret = "False" /\ transactions = transactions_pre

C22_Witness ==
    /\ gui_call.op = "duplicate"
    /\ gui_ret = "True"
    /\ Len(transactions_pre) = 1
    /\ Len(transactions) = 2
    /\ transactions[1] = transactions_pre[1]
    /\ transactions[2] # transactions[1]

(***************************************************************************)
(* C23.  export_qif never changes the list of transactions; it returns     *)
(* False and leaves every file as it was when the list is empty, when the  *)
(* name chosen is empty or blank, or when no transaction has a non-empty   *)
(* date, action and security; and it returns True only when the file then  *)
(* holds the header followed by one block for each valid transaction, in   *)
(* the order of the list.                                                  *)
(***************************************************************************)
HasAllThree(trans) ==
    \A k \in RequiredKeys : k \in DOMAIN trans /\ trans[k] # <<>> /\ trans[k] # None
ThreeNotBlank(trans) ==
    \A k \in RequiredKeys : k \in DOMAIN trans /\ Strip(trans[k]) # <<>>
BlockStartsWith(b, trans) ==
    /\ Len(b) >= 4
    /\ b[1] = Line("D", trans["date"])
    /\ b[2] = Line("N", trans["action"])
    /\ b[3] = Line("Y", trans["security"])

C23_ExportWritesAllOrNothing ==
    [][gui_call'.op = "export" =>
         LET name == gui_call'.name
             valid == SelectSeq(transactions, ThreeNotBlank)
             lines == out_file'.lines
         IN /\ transactions' = transactions
            /\ (\/ transactions = <<>>
                \/ Strip(name) = <<>>
                \/ \A i \in 1..Len(transactions) : ~HasAllThree(transactions[i])) =>
                  gui_ret' = "False" /\ out_file' = out_file
            /\ gui_ret' = "True" =>
                  /\ out_file'.exists
                  /\ HeaderPositions(lines) = {1}
                  /\ lines[1] = Line("!Type:Invst", <<>>)
                  /\ Cardinality(CaretPositions(lines)) = Len(valid)
                  /\ lines[Len(lines)] = Caret
                  /\ \A n \in 1..Len(valid) : BlockStartsWith(NthBlock(lines, n), valid[n])
      ]_vars

C23_Witness ==
    /\ gui_call.op = "export"
    /\ gui_ret = "True"
    /\ Len(transactions) = 2
    /\ ~ThreeNotBlank(transactions[1])
    /\ out_file.exists
    /\ Cardinality(CaretPositions(out_file.lines)) = 1

(***************************************************************************)
(* C24.  import_csv skips the rows with an empty required field or a       *)
(* numeric cell that is not a number; if a row is left it appends all the  *)
(* rows left, in the order of the file, after the transactions there were  *)
(* and returns True; if the file is missing, the header lacks one of       *)
(* 'Transaction Type', 'Trade Date' and 'Symbol', or no row is left, it    *)
(* returns False and the list is unchanged.                                *)
(***************************************************************************)
CellEmpty(c) == c = None \/ Strip(c) = <<>>
RowIsSkipped(row) ==
    \/ \E i \in 1..Len(required_fields) : CellEmpty(row[required_fields[i]])
    \/ \E col \in {"Price", "Quantity", "Commission"} \cap DOMAIN row :
          ~CellEmpty(row[col]) /\ float(row[col]).exc # ""

C24_ImportAppendsValidRows ==
    gui_call.op = "import" =>
       LET f == gui_call.file
           readable == /\ f.chosen /\ f.exists
                       /\ \A i \in 1..Len(required_fields) :
                             required_fields[i] \in FieldNames(f.header)
           rows == [i \in 1..Len(f.rows) |-> HeaderRow(f.header, f.rows[i])]
           kept == SelectSeq(rows, LAMBDA r : ~RowIsSkipped(r))
           n == Len(transactions_pre)
       IN IF readable /\ kept # <<>>
          THEN /\ gui_ret = "True"
               /\ Len(transactions) = n + Len(kept)
               /\ SubSeq(transactions, 1, n) = transactions_pre
               /\ \A i \in 1..Len(kept) :
                     /\ transactions[n + i]["action"] = Strip(kept[i]["Transaction Type"])
                     /\ transactions[n + i]["date"] = Strip(kept[i]["Trade Date"])
                     /\ transactions[n + i]["security"] = Strip(kept[i]["Symbol"])
          ELSE gui_ret = "False" /\ transactions = transactions_pre

(***************************************************************************)
(* C28.  After any sequence of add_transaction, edit_transaction,          *)
(* duplicate_transaction, delete_transaction and import_csv from the empty *)
(* list, every transaction of the list has a non-empty action, date and    *)
(* security.                                                               *)
(***************************************************************************)
C28_ListHoldsCompleteTransactions ==
    \A i \in 1..Len(transactions) : HasAllThree(transactions[i])

C28_Witness ==
    /\ gui_call.op = "import"
    /\ gui_ret = "True"
    /\ transactions_pre = <<>>
    /\ Len(gui_call.file.rows) = 2
    /\ Len(transactions) = 1
    /\ HasAllThree(transactions[1])

(***************************************************************************)
(* C29.  The two routes from a CSV file to a QIF file agree: for an        *)
(* investment file with the default column names, import_csv followed by   *)
(* export_qif to a fresh file writes what csv_to_qif writes to a fresh     *)
(* file under the default investment mapping.                              *)
(***************************************************************************)
C29_RoutesAgree ==
    (gui_call.op = "export" /\ gui_ret = "True") =>
       \A f \in ImportFiles :
          (/\ f.header = H_Full
           /\ import_csv(f).ret = "True"
           /\ transactions = import_csv(f).valid_rows) =>
             out_file.lines =
                csv_to_qif([i \in 1..Len(f.rows) |-> HeaderRow(f.header, f.rows[i])],
                           "investment", DefaultMapping("investment"), <<>>)

====
